---- MODULE Spec2Model ----
(***************************************************************************)
(* Multi-exchange client layer of the trading backend: the factory         *)
(* (app/exchanges/factory.py), the capability contract                     *)
(* (app/exchanges/base.py) and the five spot adapters                      *)
(* (app/exchanges/*_spot.py).                                              *)
(*                                                                         *)
(* Three specifications share the variables:                               *)
(*   Spec      the operations by the requests they send and the way they   *)
(*             terminate;                                                  *)
(*   NormSpec  the normalizers by value: what get_order and get_balance    *)
(*             return for the order and wallet the exchange holds;         *)
(*   RouteSpec the HTTP route handlers that build and use a client.        *)
(*                                                                         *)
(* One action per operation.  The native SDK is the environment: every     *)
(* SDK call answers with one of the response kinds of SdkResponses, and a  *)
(* returned order payload lacks the native keys in env.absent.  A call is  *)
(* recorded by the requests it sent (result.calls), by how it terminated   *)
(* (result.outcome, result.kind) and by what it returned (result.form,     *)
(* result.fields).                                                         *)
(*                                                                         *)
(* Object creation (Construct, and create_client through Instantiate) is   *)
(* modelled with Python's abstract-class rule.  The contract operations    *)
(* are modelled as the code of the class that defines them, run on a       *)
(* receiver of that class however it was obtained, so that the methods of  *)
(* every adapter are covered.  The error kinds are named as the raise      *)
(* sites name them (ExchangeAPIError is imported from utils/exceptions).   *)
(***************************************************************************)
EXTENDS Integers, Sequences, FiniteSets, TLC

VARIABLES op, adapter, args, env, result, exchangeOrders,
          held, returned, response,
          callers, instance, trades,
          requests, clock, verdict, granted,
          rows, saved

\* held: what the exchange holds for the account (one order, the
\* wallet); returned: the value the last operation returned; response: the
\* HTTP response of the last route handler.
aux == <<held, returned, response>>

\* callers: the calls in progress of the concurrent callers of one adapter;
\* instance: the fields of that adapter instance.
\* The rate limiter: its requests dict, the clock, the answer of the last
\* is_allowed call and the times of the calls it allowed.
lim == <<requests, clock, verdict, granted>>

\* The position and balance tables and the last save_* call.
store == <<rows, saved>>

rest == <<lim, store>>

ext == <<callers, instance, trades, rest>>

vars == <<op, adapter, args, env, result, exchangeOrders, aux, ext>>

(* ---------------------------------------------------------------------- *)
(* Bounds                                                                  *)
(* ---------------------------------------------------------------------- *)

\* Orders the exchange accepts during one behaviour.
MaxOrders == 1

(* ---------------------------------------------------------------------- *)
(* Values                                                                  *)
(* ---------------------------------------------------------------------- *)

\* Python None for an optional numeric or string argument.
None == -1

NoneStr == "None"

\* Python truthiness of an optional number: None and 0 are falsy.
Falsy(x) == x = None \/ x = 0

Exchanges == {"binance", "mexc", "kucoin", "okx", "bybit"}

MarketTypes == {"spot", "futures"}

\* str.upper() on the side / order type strings the callers pass and the
\* exchanges answer with.
Upper(s) ==
    CASE s = "buy" -> "BUY"
      [] s = "sell" -> "SELL"
      [] s = "market" -> "MARKET"
      [] s = "limit" -> "LIMIT"
      [] s = "Buy" -> "BUY"
      [] s = "Sell" -> "SELL"
      [] s = "Market" -> "MARKET"
      [] s = "Limit" -> "LIMIT"
      [] OTHER -> s

\* The eight abstract methods of the contract.
AbstractMethods ==
    {"get_account", "get_balance", "get_symbol_price", "create_order",
     "cancel_order", "get_order", "get_open_orders", "get_order_history"}

\* Methods each adapter class defines itself.
BinanceMethods ==
    {"get_account", "get_balance", "get_symbol_price", "create_order",
     "cancel_order", "get_order", "get_open_orders", "get_order_history",
     "get_order_book", "get_recent_trades", "get_klines", "get_24h_ticker",
     "get_exchange_info", "_format_order"}

MexcMethods ==
    {"get_account", "get_balance", "get_symbol_price", "create_order",
     "cancel_order", "get_order", "get_open_orders", "get_order_book",
     "_format_order", "get_server_time", "test_order", "get_order_history"}

BybitMethods ==
    {"get_account", "get_balance", "get_symbol_price", "create_order",
     "cancel_order", "get_order", "get_open_orders", "get_order_book",
     "_format_order", "_map_order_status"}

OkxMethods ==
    {"get_account", "get_balance", "get_symbol_price", "create_order",
     "cancel_order", "get_order", "get_open_orders", "get_order_book",
     "_format_order", "_map_order_status"}

KucoinMethods ==
    {"get_account", "get_balance", "get_symbol_price", "create_order",
     "cancel_order", "get_order", "get_open_orders", "get_order_book",
     "_format_order"}

Methods(ex) ==
    CASE ex = "binance" -> BinanceMethods
      [] ex = "mexc" -> MexcMethods
      [] ex = "bybit" -> BybitMethods
      [] ex = "okx" -> OkxMethods
      [] ex = "kucoin" -> KucoinMethods

\* ABC: a class that leaves an abstract method undefined cannot be
\* instantiated; the attempt raises TypeError before __init__ runs.
StillAbstract(ex) == AbstractMethods \ Methods(ex)

(* ---------------------------------------------------------------------- *)
(* Results of a call                                                       *)
(* ---------------------------------------------------------------------- *)

\* The keys of the canonical order dict.
CanonicalFields ==
    {"order_id", "symbol", "status", "side", "type", "quantity",
     "executed_qty", "price", "created_at", "updated_at", "commission",
     "commission_asset", "average_price"}

\* One request sent to the exchange: the SDK method, what it does on the
\* exchange and the parameter keys it carries.
Request(name, role, keys) == [name |-> name, role |-> role, keys |-> keys]

Raise(kind, detail, calls) ==
    [outcome |-> "raise", kind |-> kind, detail |-> detail,
     form |-> "none", fields |-> {}, calls |-> calls]

Return(form, fields, calls) ==
    [outcome |-> "return", kind |-> "none", detail |-> "",
     form |-> form, fields |-> fields, calls |-> calls]

NoResult ==
    [outcome |-> "none", kind |-> "none", detail |-> "",
     form |-> "none", fields |-> {}, calls |-> <<>>]

\* ExchangeClientBase.handle_error: always raises ExchangeAPIError.
handle_error(calls) ==
    Raise("ExchangeAPIError", "Exchange API Error", calls)

(* ---------------------------------------------------------------------- *)
(* The native SDK as environment                                           *)
(* ---------------------------------------------------------------------- *)

\* How one SDK call answers:
\*   ok        a well-formed success response
\*   exc       the SDK raises (transport failure, or a rejection the SDK
\*             reports by raising)
\*   apiexc    python-binance raises BinanceAPIException
\*   reject    a well-formed response carrying a non-success code
\*   malformed a response that lacks the envelope keys the adapter reads
SdkResponses(ex) ==
    CASE ex = "binance" -> {"ok", "exc", "apiexc"}
      [] ex \in {"bybit", "okx"} -> {"ok", "exc", "reject", "malformed"}
      [] OTHER -> {"ok", "exc"}

\* Native keys _format_order reads with order[...] (KeyError when absent).
BinanceRequiredKeys ==
    {"orderId", "symbol", "status", "side", "type", "origQty",
     "executedQty", "price", "time"}

MexcRequiredKeys == {"orderId", "symbol", "side", "type", "price", "origQty"}

BybitRequiredKeys ==
    {"orderId", "symbol", "orderStatus", "side", "orderType", "qty",
     "cumExecQty", "price", "createdTime", "updatedTime", "avgPrice"}

OkxRequiredKeys ==
    {"ordId", "instId", "state", "side", "ordType", "sz", "fillSz", "px",
     "cTime", "uTime", "avgPx"}

KucoinRequiredKeys ==
    {"id", "symbol", "status", "side", "type", "size", "createdAt"}

\* The dict each _format_order builds, by its keys; KeyError when a key it
\* subscripts is absent from the native payload.
FormatResult(required, fields, absent) ==
    IF required \cap absent # {}
    THEN [keyError |-> TRUE, fields |-> {}]
    ELSE [keyError |-> FALSE, fields |-> fields]

BinanceFormatOrder(absent) ==
    FormatResult(BinanceRequiredKeys, CanonicalFields, absent)

MexcFormatOrder(absent) ==
    FormatResult(MexcRequiredKeys,
        {"order_id", "symbol", "status", "side", "type", "price",
         "quantity", "executed_qty", "cummulative_quote_qty", "time",
         "update_time"}, absent)

BybitFormatOrder(absent) ==
    FormatResult(BybitRequiredKeys, CanonicalFields, absent)

OkxFormatOrder(absent) ==
    FormatResult(OkxRequiredKeys, CanonicalFields, absent)

KucoinFormatOrder(absent) ==
    FormatResult(KucoinRequiredKeys, CanonicalFields, absent)

\* Payload shapes the exchange answers with: complete, lacking one key the
\* normalizer subscripts, or lacking one key it reads with .get().
AbsentChoices(ex) ==
    CASE ex = "binance" -> {{}, {"price"}, {"avgPrice"}}
      [] ex = "mexc" -> {{}, {"price"}, {"status"}}
      [] ex = "bybit" -> {{}, {"avgPrice"}, {"cumExecFee"}}
      [] ex = "okx" -> {{}, {"avgPx"}, {"fee"}}
      [] ex = "kucoin" -> {{}, {"id"}, {"dealSize"}}

(* ---------------------------------------------------------------------- *)
(* Constructors and factory                                                *)
(* ---------------------------------------------------------------------- *)

Probe(name) == Request(name, "probe", {})

\* BinanceSpotClient.__init__: Client(...) then the get_account probe.
BinanceInit(r1) ==
    CASE r1 = "apiexc" -> handle_error(<<Probe("get_account")>>)
      [] r1 = "exc" ->
            Raise("ExchangeAPIError", "Binance initialization failed",
                  <<Probe("get_account")>>)
      [] OTHER -> Return("adapter", {"binance"}, <<Probe("get_account")>>)

\* MEXCSpotClient.__init__: Spot(...) then ping() and time().
MexcInit(r1, r2) ==
    CASE r1 # "ok" ->
            Raise("ExchangeAPIError", "MEXC initialization failed",
                  <<Probe("ping")>>)
      [] r2 # "ok" ->
            Raise("ExchangeAPIError", "MEXC initialization failed",
                  <<Probe("ping"), Probe("time")>>)
      [] OTHER -> Return("adapter", {"mexc"}, <<Probe("ping"), Probe("time")>>)

\* BybitSpotClient.__init__: HTTP(...) then get_wallet_balance.
BybitInit(r1) ==
    IF r1 = "exc"
    THEN Raise("ExchangeAPIError", "Bybit initialization failed",
               <<Probe("get_wallet_balance")>>)
    ELSE Return("adapter", {"bybit"}, <<Probe("get_wallet_balance")>>)

\* OKXSpotClient.__init__: four API objects then get_account_balance.
OkxInit(r1) ==
    IF r1 = "exc"
    THEN Raise("ExchangeAPIError", "OKX initialization failed",
               <<Probe("get_account_balance")>>)
    ELSE Return("adapter", {"okx"}, <<Probe("get_account_balance")>>)

\* KuCoinSpotClient.__init__: three clients then get_account_list.
KucoinInit(r1) ==
    IF r1 = "exc"
    THEN Raise("ExchangeAPIError", "KuCoin initialization failed",
               <<Probe("get_account_list")>>)
    ELSE Return("adapter", {"kucoin"}, <<Probe("get_account_list")>>)

\* Cls(...): object creation refuses a class with abstract methods left,
\* otherwise runs __init__.
Instantiate(ex, r1, r2) ==
    IF StillAbstract(ex) # {}
    THEN Raise("TypeError", "Can't instantiate abstract class", <<>>)
    ELSE CASE ex = "binance" -> BinanceInit(r1)
           [] ex = "mexc" -> MexcInit(r1, r2)
           [] ex = "bybit" -> BybitInit(r1)
           [] ex = "okx" -> OkxInit(r1)
           [] ex = "kucoin" -> KucoinInit(r1)

\* A factory that asks for the passphrase only once the market type is
\* known to be supported.
create_client_LatePassphrase(exchange, market_type, passphrase, r1, r2) ==
    LET absentPass == passphrase \in {"", NoneStr}
        unsupported ==
            Raise("ValidationError",
                  "Unsupported exchange/market combination", <<>>)
    IN  CASE market_type # "spot" -> unsupported
          [] exchange = "kucoin" /\ absentPass ->
                Raise("ValidationError",
                      "Passphrase is required for KuCoin", <<>>)
          [] exchange = "okx" /\ absentPass ->
                Raise("ValidationError",
                      "Passphrase is required for OKX", <<>>)
          [] OTHER -> Instantiate(exchange, r1, r2)

\* A factory without the closing raise: an unsupported combination falls
\* off the end of the function and None is returned.
create_client_FallThrough(exchange, market_type, passphrase, r1, r2) ==
    LET absentPass == passphrase \in {"", NoneStr}
        unsupported ==
            Return("none", {}, <<>>)
    IN  CASE exchange = "binance" ->
                IF market_type = "spot"
                THEN Instantiate("binance", r1, r2) ELSE unsupported
          [] exchange = "mexc" ->
                IF market_type = "spot"
                THEN Instantiate("mexc", r1, r2) ELSE unsupported
          [] exchange = "kucoin" ->
                IF absentPass
                THEN Raise("ValidationError",
                           "Passphrase is required for KuCoin", <<>>)
                ELSE IF market_type = "spot"
                     THEN Instantiate("kucoin", r1, r2) ELSE unsupported
          [] exchange = "okx" ->
                IF absentPass
                THEN Raise("ValidationError",
                           "Passphrase is required for OKX", <<>>)
                ELSE IF market_type = "spot"
                     THEN Instantiate("okx", r1, r2) ELSE unsupported
          [] exchange = "bybit" ->
                IF market_type = "spot"
                THEN Instantiate("bybit", r1, r2) ELSE unsupported
          [] OTHER -> unsupported

\* ExchangeClientFactory.create_client.  passphrase is a string, "" or
\* NoneStr; `not passphrase` holds for the last two.
create_client(exchange, market_type, passphrase, r1, r2) ==
    LET absentPass == passphrase \in {"", NoneStr}
        unsupported ==
            Raise("ValidationError",
                  "Unsupported exchange/market combination", <<>>)
    IN  CASE exchange = "binance" ->
                IF market_type = "spot"
                THEN Instantiate("binance", r1, r2) ELSE unsupported
          [] exchange = "mexc" ->
                IF market_type = "spot"
                THEN Instantiate("mexc", r1, r2) ELSE unsupported
          [] exchange = "kucoin" ->
                IF absentPass
                THEN Raise("ValidationError",
                           "Passphrase is required for KuCoin", <<>>)
                ELSE IF market_type = "spot"
                     THEN Instantiate("kucoin", r1, r2) ELSE unsupported
          [] exchange = "okx" ->
                IF absentPass
                THEN Raise("ValidationError",
                           "Passphrase is required for OKX", <<>>)
                ELSE IF market_type = "spot"
                     THEN Instantiate("okx", r1, r2) ELSE unsupported
          [] exchange = "bybit" ->
                IF market_type = "spot"
                THEN Instantiate("bybit", r1, r2) ELSE unsupported
          [] OTHER -> unsupported

(* ---------------------------------------------------------------------- *)
(* create_order                                                            *)
(* ---------------------------------------------------------------------- *)

EAE == "ExchangeAPIError"

Place(name, keys) == Request(name, "place", keys)

Fetch(name) == Request(name, "fetch", {})

\* BinanceSpotClient.create_order
BinanceCreateOrder(a, e) ==
    LET limit == Upper(a.order_type) = "LIMIT"
        keys == {"symbol", "side", "type", "quantity"}
                \cup (IF limit THEN {"price", "timeInForce"} ELSE {})
        calls == <<Place("create_order", keys)>>
        fmt == BinanceFormatOrder(e.absent)
    IN  IF limit /\ Falsy(a.price)
        THEN \* ValueError, caught by `except Exception`
             Raise(EAE, "Failed to create order: Price is required", <<>>)
        ELSE CASE e.r1 = "apiexc" -> handle_error(calls)
               [] e.r1 = "exc" -> Raise(EAE, "Failed to create order", calls)
               [] OTHER ->
                    IF fmt.keyError
                    THEN Raise(EAE, "Failed to create order", calls)
                    ELSE Return("order", fmt.fields, calls)

\* MEXCSpotClient.create_order (no extra keyword arguments passed)
MexcCreateOrder(a, e) ==
    LET type == Upper(a.order_type)
        options ==
            CASE type = "MARKET" ->
                    (IF ~Falsy(a.quote_order_qty) /\ Upper(a.side) = "BUY"
                     THEN {"quoteOrderQty"} ELSE {})
                    \cup (IF ~Falsy(a.quantity) THEN {"quantity"} ELSE {})
              [] type = "LIMIT" -> {"quantity", "price", "timeInForce"}
              [] OTHER -> {}
        calls == <<Place("new_order", options \cup {"newOrderRespType"})>>
        fmt == MexcFormatOrder(e.absent)
    IN  IF e.r1 # "ok"
        THEN \* both branches of the message parsing raise HTTPException(400)
             Raise("HTTPException",
                   IF e.jsonMsg THEN "mexc_error" ELSE "message", calls)
        ELSE IF fmt.keyError
             THEN \* `except KeyError: return order`
                  Return("raw", {}, calls)
             ELSE Return("order", fmt.fields, calls)

\* A create_order that places the order again when the first placement
\* raised or answered without the expected envelope.
BybitCreateOrderRetry(a, e) ==
    LET limit == Upper(a.order_type) = "LIMIT"
        keys == {"category", "symbol", "side", "orderType", "qty"}
                \cup (IF limit THEN {"price"} ELSE {})
        place == <<Place("place_order", keys)>>
        both == Append(place, Fetch("get_order_history"))
        fmt == BybitFormatOrder(e.absent)
    IN  IF limit /\ Falsy(a.price)
        THEN Raise(EAE, "Failed to create order: Price is required", <<>>)
        ELSE CASE e.r1 \in {"exc", "malformed"} ->
                    Raise(EAE, "Failed to create order", place \o place)
               [] e.r1 = "reject" ->
                    Raise(EAE, "Failed to create order: Order failed", place)
               [] OTHER ->
                    IF e.r2 # "ok" \/ fmt.keyError
                    THEN Raise(EAE, "Failed to create order", both)
                    ELSE Return("order", fmt.fields, both)

\* BybitSpotClient.create_order
BybitCreateOrder(a, e) ==
    LET limit == Upper(a.order_type) = "LIMIT"
        keys == {"category", "symbol", "side", "orderType", "qty"}
                \cup (IF limit THEN {"price"} ELSE {})
        place == <<Place("place_order", keys)>>
        both == Append(place, Fetch("get_order_history"))
        fmt == BybitFormatOrder(e.absent)
    IN  IF limit /\ Falsy(a.price)
        THEN Raise(EAE, "Failed to create order: Price is required", <<>>)
        ELSE CASE e.r1 \in {"exc", "malformed"} ->
                    Raise(EAE, "Failed to create order", place)
               [] e.r1 = "reject" ->
                    Raise(EAE, "Failed to create order: Order failed", place)
               [] OTHER ->
                    IF e.r2 # "ok" \/ fmt.keyError
                    THEN Raise(EAE, "Failed to create order", both)
                    ELSE Return("order", fmt.fields, both)

\* A create_order that asks for the order's details whatever code the
\* placement answered with.
OkxCreateOrderFetchAnyway(a, e) ==
    LET limit == Upper(a.order_type) = "LIMIT"
        keys == {"instId", "tdMode", "side", "ordType", "sz"}
                \cup (IF limit THEN {"px"} ELSE {})
        place == <<Place("place_order", keys)>>
        both == Append(place, Fetch("get_order"))
        fmt == OkxFormatOrder(e.absent)
    IN  IF limit /\ Falsy(a.price)
        THEN Raise(EAE, "Failed to create order: Price is required", <<>>)
        ELSE CASE e.r1 \in {"exc", "malformed"} ->
                    Raise(EAE, "Failed to create order", place)
               [] e.r1 = "reject" ->
                    Raise(EAE, "Failed to create order: Order failed", both)
               [] OTHER ->
                    IF e.r2 # "ok" \/ fmt.keyError
                    THEN Raise(EAE, "Failed to create order", both)
                    ELSE Return("order", fmt.fields, both)

\* OKXSpotClient.create_order
OkxCreateOrder(a, e) ==
    LET limit == Upper(a.order_type) = "LIMIT"
        keys == {"instId", "tdMode", "side", "ordType", "sz"}
                \cup (IF limit THEN {"px"} ELSE {})
        place == <<Place("place_order", keys)>>
        both == Append(place, Fetch("get_order"))
        fmt == OkxFormatOrder(e.absent)
    IN  IF limit /\ Falsy(a.price)
        THEN Raise(EAE, "Failed to create order: Price is required", <<>>)
        ELSE CASE e.r1 \in {"exc", "malformed"} ->
                    Raise(EAE, "Failed to create order", place)
               [] e.r1 = "reject" ->
                    Raise(EAE, "Failed to create order: Order failed", place)
               [] OTHER ->
                    CASE e.r2 \in {"exc", "malformed"} ->
                            Raise(EAE, "Failed to create order", both)
                      [] e.r2 = "reject" ->
                            Raise(EAE,
                                  "Failed to create order: Failed to get order details",
                                  both)
                      [] OTHER ->
                            IF fmt.keyError
                            THEN Raise(EAE, "Failed to create order", both)
                            ELSE Return("order", fmt.fields, both)

\* KuCoinSpotClient.create_order
KucoinCreateOrder(a, e) ==
    LET limit == Upper(a.order_type) = "LIMIT"
        keys == {"symbol", "side", "type", "size"}
                \cup (IF limit THEN {"price"} ELSE {})
        calls == <<Place("create_order", keys)>>
        fmt == KucoinFormatOrder(e.absent)
    IN  IF limit /\ Falsy(a.price)
        THEN Raise(EAE, "Failed to create order: Price is required", <<>>)
        ELSE IF e.r1 # "ok" \/ fmt.keyError
             THEN Raise(EAE, "Failed to create order", calls)
             ELSE Return("order", fmt.fields, calls)

\* Keyword parameters each create_order signature accepts beyond
\* (symbol, side, order_type, quantity, price).
ExtraParameters(ex) == IF ex = "mexc" THEN {"quote_order_qty"} ELSE {}

\* adapter.create_order(symbol=..., side=..., order_type=..., quantity=...,
\* price=..., [quote_order_qty=...]): Python binds the arguments to the
\* signature first and raises TypeError for a keyword it does not declare.
create_order(ex, a, e) ==
    IF a.quote_order_qty # None /\ "quote_order_qty" \notin ExtraParameters(ex)
    THEN Raise("TypeError", "unexpected keyword argument", <<>>)
    ELSE CASE ex = "binance" -> BinanceCreateOrder(a, e)
           [] ex = "mexc" -> MexcCreateOrder(a, e)
           [] ex = "bybit" -> BybitCreateOrder(a, e)
           [] ex = "okx" -> OkxCreateOrder(a, e)
           [] ex = "kucoin" -> KucoinCreateOrder(a, e)

(* ---------------------------------------------------------------------- *)
(* The other contract operations                                           *)
(* ---------------------------------------------------------------------- *)

Read(name) == Request(name, "read", {})

Cancel(name) == Request(name, "cancel", {})

\* try: one SDK call, then build the value from the response;
\* except Exception: raise ExchangeAPIError.
TryOne(req, r, keyError, form, fields, detail) ==
    IF r # "ok" \/ keyError
    THEN Raise(EAE, detail, <<req>>)
    ELSE Return(form, fields, <<req>>)

\* The same with python-binance's `except BinanceAPIException` first.
BinanceTryOne(req, r, keyError, form, fields, detail) ==
    IF r = "apiexc"
    THEN handle_error(<<req>>)
    ELSE TryOne(req, r, keyError, form, fields, detail)

\* try: two SDK calls in sequence, the value built from the second;
\* a first call that does not succeed ends the operation.
TryTwo(req1, req2, r1, r2, keyError, form, fields, detail) ==
    CASE r1 # "ok" -> Raise(EAE, detail, <<req1>>)
      [] r2 # "ok" \/ keyError -> Raise(EAE, detail, <<req1, req2>>)
      [] OTHER -> Return(form, fields, <<req1, req2>>)

\* Keys the non-order operations subscript in the native response.
BinanceBalanceKeys == {"balances", "asset", "free", "locked"}

MexcBalanceKeys == {"balances", "asset", "free", "locked"}

BybitBalanceKeys == {"result", "list", "coin", "free", "locked", "total"}

OkxBalanceKeys ==
    {"code", "data", "details", "ccy", "availBal", "frozenBal", "cashBal"}

KucoinBalanceKeys == {"currency", "available", "holds", "balance"}

BalanceFields == {"free", "locked", "total"}

PriceFields == {"symbol", "price", "timestamp"}

\* ---- Binance ----
BinanceGetAccount(e) ==
    BinanceTryOne(Read("get_account"), e.r1, FALSE, "account", {},
                  "Failed to get account information")

BinanceGetBalance(e) ==
    BinanceTryOne(Read("get_account"), e.r1,
                  BinanceBalanceKeys \cap e.absent # {},
                  "balances", BalanceFields, "Failed to get balance")

BinanceGetSymbolPrice(e) ==
    BinanceTryOne(Read("get_symbol_ticker"), e.r1,
                  {"symbol", "price"} \cap e.absent # {},
                  "price", PriceFields, "Failed to get symbol price")

BinanceCancelOrder(e) ==
    BinanceTryOne(Cancel("cancel_order"), e.r1,
                  BinanceFormatOrder(e.absent).keyError,
                  "order", CanonicalFields, "Failed to cancel order")

BinanceGetOrder(e) ==
    BinanceTryOne(Read("get_order"), e.r1,
                  BinanceFormatOrder(e.absent).keyError,
                  "order", CanonicalFields, "Failed to get order")

BinanceGetOpenOrders(e) ==
    BinanceTryOne(Read("get_open_orders"), e.r1,
                  BinanceFormatOrder(e.absent).keyError,
                  "orders", CanonicalFields, "Failed to get open orders")

\* `self.client.get_all_orders(symbol=symbol) if symbol else []`
BinanceGetOrderHistory(a, e) ==
    IF a.symbol = NoneStr
    THEN Return("orders", {}, <<>>)
    ELSE BinanceTryOne(Read("get_all_orders"), e.r1,
                       BinanceFormatOrder(e.absent).keyError,
                       "orders", CanonicalFields,
                       "Failed to get order history")

\* ---- MEXC ----
MexcGetAccount(e) ==
    TryOne(Read("account_info"), e.r1, FALSE, "account", {},
           "Failed to get account information")

MexcGetBalance(e) ==
    TryOne(Read("account_info"), e.r1, MexcBalanceKeys \cap e.absent # {},
           "balances", BalanceFields, "Failed to get balance")

MexcGetSymbolPrice(e) ==
    TryOne(Read("ticker_price"), e.r1, {"price"} \cap e.absent # {},
           "price", PriceFields, "Failed to get symbol price")

MexcCancelOrder(e) ==
    TryOne(Cancel("cancel_order"), e.r1, MexcFormatOrder(e.absent).keyError,
           "order", MexcFormatOrder({}).fields, "Failed to cancel order")

MexcGetOrder(e) ==
    TryOne(Read("get_order"), e.r1, MexcFormatOrder(e.absent).keyError,
           "order", MexcFormatOrder({}).fields, "Failed to get order")

MexcGetOpenOrders(e) ==
    TryOne(Read("open_orders"), e.r1, MexcFormatOrder(e.absent).keyError,
           "orders", MexcFormatOrder({}).fields, "Failed to get open orders")

MexcGetOrderHistory(a, e) ==
    TryOne(Read("all_orders"), e.r1, MexcFormatOrder(e.absent).keyError,
           "orders", MexcFormatOrder({}).fields,
           "Failed to get order history")

\* ---- Bybit ----
\* both SDK calls are made before either response is subscripted
BybitGetAccount(e) ==
    LET w == Read("get_wallet_balance")
        k == Read("get_api_key_information")
    IN  CASE e.r1 = "exc" ->
                Raise(EAE, "Failed to get account information", <<w>>)
          [] e.r2 # "ok" \/ e.r1 # "ok" ->
                Raise(EAE, "Failed to get account information", <<w, k>>)
          [] {"result", "permissions"} \cap e.absent # {} ->
                Raise(EAE, "Failed to get account information", <<w, k>>)
          [] OTHER ->
                Return("account", {"wallet", "permissions", "account_type"},
                       <<w, k>>)

BybitGetBalance(e) ==
    TryOne(Read("get_wallet_balance"), e.r1,
           BybitBalanceKeys \cap e.absent # {},
           "balances", BalanceFields, "Failed to get balance")

BybitGetSymbolPrice(e) ==
    TryOne(Read("get_tickers"), e.r1,
           {"result", "list", "lastPrice"} \cap e.absent # {},
           "price", PriceFields, "Failed to get symbol price")

BybitCancelOrder(e) ==
    TryTwo(Cancel("cancel_order"), Fetch("get_order_history"), e.r1, e.r2,
           BybitFormatOrder(e.absent).keyError,
           "order", CanonicalFields, "Failed to cancel order")

\* A get_order that goes through the cancel endpoint first, as cancel_order
\* does.
BybitGetOrderCancelling(e) ==
    TryTwo(Cancel("cancel_order"), Fetch("get_order_history"), e.r1, e.r2,
           BybitFormatOrder(e.absent).keyError,
           "order", CanonicalFields, "Failed to get order")

BybitGetOrder(e) ==
    TryOne(Read("get_order_history"), e.r1,
           BybitFormatOrder(e.absent).keyError,
           "order", CanonicalFields, "Failed to get order")

BybitGetOpenOrders(e) ==
    TryOne(Read("get_open_orders"), e.r1,
           BybitFormatOrder(e.absent).keyError,
           "orders", CanonicalFields, "Failed to get open orders")

\* ---- OKX ----
OkxGetAccount(e) ==
    LET b == Read("get_account_balance")
        p == Read("get_position_risk")
    IN  CASE e.r1 = "exc" ->
                Raise(EAE, "Failed to get account information", <<b>>)
          [] e.r2 # "ok" \/ e.r1 # "ok" ->
                Raise(EAE, "Failed to get account information", <<b, p>>)
          [] {"data"} \cap e.absent # {} ->
                Raise(EAE, "Failed to get account information", <<b, p>>)
          [] OTHER ->
                Return("account",
                       {"balance", "position_risk", "account_type"}, <<b, p>>)

OkxGetBalance(e) ==
    TryOne(Read("get_account_balance"), e.r1,
           OkxBalanceKeys \cap e.absent # {},
           "balances", BalanceFields, "Failed to get balance")

OkxGetSymbolPrice(e) ==
    TryOne(Read("get_ticker"), e.r1,
           {"data", "last", "ts"} \cap e.absent # {},
           "price", PriceFields, "Failed to get symbol price")

OkxCancelOrder(e) ==
    TryTwo(Cancel("cancel_order"), Fetch("get_order"), e.r1, e.r2,
           OkxFormatOrder(e.absent).keyError,
           "order", CanonicalFields, "Failed to cancel order")

OkxGetOrder(e) ==
    TryOne(Read("get_order"), e.r1, OkxFormatOrder(e.absent).keyError,
           "order", CanonicalFields, "Failed to get order")

OkxGetOpenOrders(e) ==
    TryOne(Read("get_order_list"), e.r1, OkxFormatOrder(e.absent).keyError,
           "orders", CanonicalFields, "Failed to get open orders")

\* ---- KuCoin ----
KucoinGetAccount(e) ==
    TryOne(Read("get_account_list"), e.r1, FALSE, "account",
           {"accounts", "account_type", "permissions"},
           "Failed to get account information")

KucoinGetBalance(e) ==
    TryOne(Read("get_account_list"), e.r1,
           KucoinBalanceKeys \cap e.absent # {},
           "balances", BalanceFields, "Failed to get balance")

KucoinGetSymbolPrice(e) ==
    TryOne(Read("get_ticker"), e.r1, {"price", "time"} \cap e.absent # {},
           "price", PriceFields, "Failed to get symbol price")

\* the cancel response is not inspected; the details are fetched next
KucoinCancelOrder(e) ==
    TryTwo(Cancel("cancel_order"), Fetch("get_order_details"), e.r1, e.r2,
           KucoinFormatOrder(e.absent).keyError,
           "order", CanonicalFields, "Failed to cancel order")

KucoinGetOrder(e) ==
    TryOne(Read("get_order_details"), e.r1,
           KucoinFormatOrder(e.absent).keyError,
           "order", CanonicalFields, "Failed to get order")

KucoinGetOpenOrders(e) ==
    TryOne(Read("get_order_list"), e.r1,
           {"items"} \cap e.absent # {} \/ KucoinFormatOrder(e.absent).keyError,
           "orders", CanonicalFields, "Failed to get open orders")

\* Dispatch of a contract operation other than create_order to the class
\* that defines it.
Invoke(ex, o, a, e) ==
    CASE o = "get_account" ->
            (CASE ex = "binance" -> BinanceGetAccount(e)
               [] ex = "mexc" -> MexcGetAccount(e)
               [] ex = "bybit" -> BybitGetAccount(e)
               [] ex = "okx" -> OkxGetAccount(e)
               [] ex = "kucoin" -> KucoinGetAccount(e))
      [] o = "get_balance" ->
            (CASE ex = "binance" -> BinanceGetBalance(e)
               [] ex = "mexc" -> MexcGetBalance(e)
               [] ex = "bybit" -> BybitGetBalance(e)
               [] ex = "okx" -> OkxGetBalance(e)
               [] ex = "kucoin" -> KucoinGetBalance(e))
      [] o = "get_symbol_price" ->
            (CASE ex = "binance" -> BinanceGetSymbolPrice(e)
               [] ex = "mexc" -> MexcGetSymbolPrice(e)
               [] ex = "bybit" -> BybitGetSymbolPrice(e)
               [] ex = "okx" -> OkxGetSymbolPrice(e)
               [] ex = "kucoin" -> KucoinGetSymbolPrice(e))
      [] o = "cancel_order" ->
            (CASE ex = "binance" -> BinanceCancelOrder(e)
               [] ex = "mexc" -> MexcCancelOrder(e)
               [] ex = "bybit" -> BybitCancelOrder(e)
               [] ex = "okx" -> OkxCancelOrder(e)
               [] ex = "kucoin" -> KucoinCancelOrder(e))
      [] o = "get_order" ->
            (CASE ex = "binance" -> BinanceGetOrder(e)
               [] ex = "mexc" -> MexcGetOrder(e)
               [] ex = "bybit" -> BybitGetOrder(e)
               [] ex = "okx" -> OkxGetOrder(e)
               [] ex = "kucoin" -> KucoinGetOrder(e))
      [] o = "get_open_orders" ->
            (CASE ex = "binance" -> BinanceGetOpenOrders(e)
               [] ex = "mexc" -> MexcGetOpenOrders(e)
               [] ex = "bybit" -> BybitGetOpenOrders(e)
               [] ex = "okx" -> OkxGetOpenOrders(e)
               [] ex = "kucoin" -> KucoinGetOpenOrders(e))
      [] o = "get_order_history" ->
            (CASE ex = "binance" -> BinanceGetOrderHistory(a, e)
               [] ex = "mexc" -> MexcGetOrderHistory(a, e))

(* ---------------------------------------------------------------------- *)
(* Inputs                                                                  *)
(* ---------------------------------------------------------------------- *)

Sides == {"BUY", "sell"}

OrderTypes == {"MARKET", "limit"}

Quantities == {None, 1}

Prices == {None, 100}

QuoteQuantities == {None, 50}

Symbols == {"BTCUSDT", NoneStr}

Passphrases == {NoneStr, "", "secret"}

NoArgs ==
    [symbol |-> NoneStr, side |-> "", order_type |-> "", quantity |-> None,
     price |-> None, quote_order_qty |-> None, market_type |-> "",
     passphrase |-> NoneStr, asset |-> NoneStr]

OrderArgs ==
    {[NoArgs EXCEPT !.symbol = "BTCUSDT", !.side = s, !.order_type = t,
                    !.quantity = q, !.price = p, !.quote_order_qty = qq] :
        s \in Sides, t \in OrderTypes, q \in Quantities, p \in Prices,
        qq \in QuoteQuantities}

NoEnv ==
    [r1 |-> "ok", r2 |-> "ok", absent |-> {}, accepted |-> FALSE,
     jsonMsg |-> FALSE]

\* Adapters whose create_order / cancel_order make a second SDK call.
TwoCalls(ex, o) ==
    \/ o \in {"create_order", "cancel_order"} /\ ex \in {"bybit", "okx"}
    \/ o = "cancel_order" /\ ex = "kucoin"
    \/ o = "get_account" /\ ex \in {"bybit", "okx"}
    \/ o = "construct" /\ ex = "mexc"

\* Keys one response of operation o may lack.
AbsentFor(ex, o) ==
    CASE o \in {"create_order", "cancel_order", "get_order",
                "get_open_orders", "get_order_history"} -> AbsentChoices(ex)
      [] o = "get_balance" -> {{}, {"free"}, {"locked"}, {"availBal"},
                               {"available"}}
      [] o = "get_symbol_price" -> {{}, {"price"}, {"lastPrice"}, {"last"}}
      [] o = "get_account" -> {{}, {"permissions"}, {"data"}}
      [] OTHER -> {{}}

\* The answers the exchange can give to the SDK calls of operation o.  A
\* placement that answers ok was accepted, one that answers with a
\* rejection was not; after a raised or malformed answer either is possible.
Envs(ex, o) ==
    {e \in [r1 : SdkResponses(ex), r2 : SdkResponses(ex),
            absent : AbsentFor(ex, o), accepted : BOOLEAN,
            jsonMsg : BOOLEAN] :
        /\ (e.r2 # "ok") => (TwoCalls(ex, o) /\ e.r1 = "ok")
        /\ (e.absent # {}) => (e.r1 = "ok" /\ e.r2 = "ok")
        /\ e.accepted =>
              (o = "create_order" /\ e.r1 \in {"ok", "exc", "malformed"})
        /\ (o = "create_order" /\ e.r1 = "ok") => e.accepted
        /\ e.jsonMsg => (o = "create_order" /\ ex = "mexc" /\ e.r1 # "ok")}

Placements(calls) ==
    Cardinality({i \in DOMAIN calls : calls[i].role = "place"})

(* ---------------------------------------------------------------------- *)
(* Values held by the exchange and returned by the operations              *)
(* ---------------------------------------------------------------------- *)

\* No order and an empty wallet.
NoExchange == [order |-> [none |-> TRUE], wallet |-> <<>>]

\* Nothing returned (no call yet, or the call raised).
NoValue == [form |-> "none"]

\* No request handled yet.  Of a handled request: the status answered, the
\* router, the state of the account the request named, how far the handler
\* got, whether create_client was called, whether a trade row was written,
\* whether the placement call returned, and the inputs of the request
\* (webhook passphrase right, webhook action, what the database does with
\* the trade row).
NoResponse ==
    [status |-> 0, route |-> "none", account |-> "none", stage |-> "none",
     factory |-> FALSE, trade |-> FALSE, placed |-> FALSE,
     passphrase |-> TRUE, action |-> "none", db |-> "ok"]

\* dict.get(key, default)
Get(d, key, default) == IF key \in DOMAIN d THEN d[key] ELSE default

\* Decimal texts the exchanges send; "" is what some send for "no value".
NumberTexts == {"0", "1", "2", "3", "100", "150", "200", "300"}

IsNumber(s) == s \in NumberTexts

\* float(s) / int(s) for the texts above; float("") raises ValueError, which
\* the callers test with IsNumber before converting.
Float(s) ==
    CASE s = "0" -> 0
      [] s = "1" -> 1
      [] s = "2" -> 2
      [] s = "3" -> 3
      [] s = "100" -> 100
      [] s = "150" -> 150
      [] s = "200" -> 200
      [] s = "300" -> 300

\* A native order id with its Python type: Binance numbers its orders,
\* MEXC answers with either form, the others answer with strings.
NativeIds(ex) ==
    CASE ex = "binance" -> {[type |-> "int", text |-> "12345"]}
      [] ex = "mexc" -> {[type |-> "int", text |-> "12345"],
                         [type |-> "str", text |-> "C02__12345"]}
      [] OTHER -> {[type |-> "str", text |-> "12345"]}

\* str(x): the same digits, now a string.
Str(id) == [type |-> "str", text |-> id.text]

\* str.upper() on a native status.
UpperStatus(s) ==
    CASE s = "weird_state" -> "WEIRD_STATE"
      [] s = "active" -> "ACTIVE"
      [] s = "done" -> "DONE"
      [] s = "Expired" -> "EXPIRED"
      [] OTHER -> s

\* BybitSpotClient._map_order_status with 'Cancelled' left as Bybit spells it.
Bybit_map_order_status_Verbatim(bybit_status) ==
    CASE bybit_status = "Created" -> "NEW"
      [] bybit_status = "New" -> "NEW"
      [] bybit_status = "PartiallyFilled" -> "PARTIALLY_FILLED"
      [] bybit_status = "Filled" -> "FILLED"
      [] bybit_status = "Cancelled" -> "CANCELLED"
      [] bybit_status = "Rejected" -> "REJECTED"
      [] bybit_status = "PendingCancel" -> "PENDING_CANCEL"
      [] OTHER -> UpperStatus(bybit_status)

\* BybitSpotClient._map_order_status: status_map.get(s, s.upper())
Bybit_map_order_status(bybit_status) ==
    CASE bybit_status = "Created" -> "NEW"
      [] bybit_status = "New" -> "NEW"
      [] bybit_status = "PartiallyFilled" -> "PARTIALLY_FILLED"
      [] bybit_status = "Filled" -> "FILLED"
      [] bybit_status = "Cancelled" -> "CANCELED"
      [] bybit_status = "Rejected" -> "REJECTED"
      [] bybit_status = "PendingCancel" -> "PENDING_CANCEL"
      [] OTHER -> UpperStatus(bybit_status)

\* OKXSpotClient._map_order_status
Okx_map_order_status(okx_status) ==
    CASE okx_status = "live" -> "NEW"
      [] okx_status = "partially_filled" -> "PARTIALLY_FILLED"
      [] okx_status = "filled" -> "FILLED"
      [] okx_status = "canceled" -> "CANCELED"
      [] okx_status = "failed" -> "REJECTED"
      [] OTHER -> UpperStatus(okx_status)

\* What _format_order did: the dict it built, or the exception it raised.
Formatted(order) == [error |-> "none", order |-> order]

FormatError(kind) == [error |-> kind, order |-> [none |-> TRUE]]

\* order[...] on an absent key raises KeyError.
Lacks(order, required) == required \ DOMAIN order # {}

\* float() of a text that is not a number raises ValueError.
BadNumber(order, numbers) == \E k \in numbers : ~IsNumber(order[k])

\* float(x) or None
OrNone(x) == IF x = 0 THEN None ELSE x

\* BinanceSpotClient._format_order handing the native orderId on as it is.
Binance_format_order_RawId(order) ==
    LET numbers ==
            {"origQty", "executedQty"}
            \cup (IF order["price"] # "0" THEN {"price"} ELSE {})
            \cup ({"commission", "avgPrice"} \cap DOMAIN order)
    IN  CASE Lacks(order, BinanceRequiredKeys) -> FormatError("KeyError")
          [] BadNumber(order, numbers) -> FormatError("ValueError")
          [] OTHER ->
                Formatted(
                    [order_id |-> order["orderId"],
                     symbol |-> order["symbol"],
                     status |-> order["status"],
                     side |-> order["side"],
                     type |-> order["type"],
                     quantity |-> Float(order["origQty"]),
                     executed_qty |-> Float(order["executedQty"]),
                     price |-> IF order["price"] # "0"
                               THEN Float(order["price"]) ELSE None,
                     created_at |-> order["time"],
                     updated_at |-> Get(order, "updateTime", None),
                     commission |-> Float(Get(order, "commission", "0")),
                     commission_asset |->
                         Get(order, "commissionAsset", NoneStr),
                     average_price |->
                         OrNone(Float(Get(order, "avgPrice", "0")))])

\* BinanceSpotClient._format_order
Binance_format_order(order) ==
    LET numbers ==
            {"origQty", "executedQty"}
            \cup (IF order["price"] # "0" THEN {"price"} ELSE {})
            \cup ({"commission", "avgPrice"} \cap DOMAIN order)
    IN  CASE Lacks(order, BinanceRequiredKeys) -> FormatError("KeyError")
          [] BadNumber(order, numbers) -> FormatError("ValueError")
          [] OTHER ->
                Formatted(
                    [order_id |-> Str(order["orderId"]),
                     symbol |-> order["symbol"],
                     status |-> order["status"],
                     side |-> order["side"],
                     type |-> order["type"],
                     quantity |-> Float(order["origQty"]),
                     executed_qty |-> Float(order["executedQty"]),
                     price |-> IF order["price"] # "0"
                               THEN Float(order["price"]) ELSE None,
                     created_at |-> order["time"],
                     updated_at |-> Get(order, "updateTime", None),
                     commission |-> Float(Get(order, "commission", "0")),
                     commission_asset |->
                         Get(order, "commissionAsset", NoneStr),
                     average_price |->
                         OrNone(Float(Get(order, "avgPrice", "0")))])

\* MEXCSpotClient._format_order
Mexc_format_order(order) ==
    LET numbers ==
            {"price", "origQty"}
            \cup ({"executedQty", "cummulativeQuoteQty"} \cap DOMAIN order)
        time == Get(order, "transactTime", Get(order, "time", 0))
    IN  CASE Lacks(order, MexcRequiredKeys) -> FormatError("KeyError")
          [] BadNumber(order, numbers) -> FormatError("ValueError")
          [] OTHER ->
                Formatted(
                    [order_id |-> Str(order["orderId"]),
                     symbol |-> order["symbol"],
                     status |-> Get(order, "status", "FILLED"),
                     side |-> order["side"],
                     type |-> order["type"],
                     price |-> Float(order["price"]),
                     quantity |-> Float(order["origQty"]),
                     executed_qty |->
                         Float(Get(order, "executedQty", order["origQty"])),
                     cummulative_quote_qty |->
                         Float(Get(order, "cummulativeQuoteQty", "0")),
                     time |-> time,
                     update_time |-> Get(order, "updateTime", time)])

\* BybitSpotClient._format_order
Bybit_format_order(order) ==
    LET numbers ==
            {"qty", "cumExecQty"}
            \cup (IF order["price"] # "0" THEN {"price"} ELSE {})
            \cup (IF order["avgPrice"] # "0" THEN {"avgPrice"} ELSE {})
            \cup ({"cumExecFee"} \cap DOMAIN order)
    IN  CASE Lacks(order, BybitRequiredKeys) -> FormatError("KeyError")
          [] BadNumber(order, numbers) -> FormatError("ValueError")
          [] OTHER ->
                Formatted(
                    [order_id |-> order["orderId"],
                     symbol |-> order["symbol"],
                     status |-> Bybit_map_order_status(order["orderStatus"]),
                     side |-> Upper(order["side"]),
                     type |-> Upper(order["orderType"]),
                     quantity |-> Float(order["qty"]),
                     executed_qty |-> Float(order["cumExecQty"]),
                     price |-> IF order["price"] # "0"
                               THEN Float(order["price"]) ELSE None,
                     created_at |-> order["createdTime"],
                     updated_at |-> order["updatedTime"],
                     commission |-> Float(Get(order, "cumExecFee", "0")),
                     commission_asset |-> Get(order, "feeTokenId", NoneStr),
                     average_price |-> IF order["avgPrice"] # "0"
                                       THEN Float(order["avgPrice"])
                                       ELSE None])

\* OKXSpotClient._format_order
Okx_format_order(order) ==
    LET numbers ==
            {"sz", "fillSz", "cTime", "uTime"}
            \cup (IF order["px"] # "" THEN {"px"} ELSE {})
            \cup (IF order["avgPx"] # "" THEN {"avgPx"} ELSE {})
            \cup ({"fee"} \cap DOMAIN order)
    IN  CASE Lacks(order, OkxRequiredKeys) -> FormatError("KeyError")
          [] BadNumber(order, numbers) -> FormatError("ValueError")
          [] OTHER ->
                Formatted(
                    [order_id |-> order["ordId"],
                     symbol |-> order["instId"],
                     status |-> Okx_map_order_status(order["state"]),
                     side |-> Upper(order["side"]),
                     type |-> Upper(order["ordType"]),
                     quantity |-> Float(order["sz"]),
                     executed_qty |-> Float(order["fillSz"]),
                     price |-> IF order["px"] # ""
                               THEN Float(order["px"]) ELSE None,
                     created_at |-> Float(order["cTime"]),
                     updated_at |-> Float(order["uTime"]),
                     commission |-> Float(Get(order, "fee", "0")),
                     commission_asset |-> Get(order, "feeCcy", NoneStr),
                     average_price |-> IF order["avgPx"] # ""
                                       THEN Float(order["avgPx"])
                                       ELSE None])

\* KuCoinSpotClient._format_order
Kucoin_format_order(order) ==
    LET hasPrice == "price" \in DOMAIN order /\ order["price"] # ""
        numbers ==
            {"size"}
            \cup (IF hasPrice THEN {"price"} ELSE {})
            \cup ({"dealSize", "dealFunds", "fee"} \cap DOMAIN order)
        dealSize == Float(Get(order, "dealSize", "0"))
    IN  CASE Lacks(order, KucoinRequiredKeys) -> FormatError("KeyError")
          [] BadNumber(order, numbers) -> FormatError("ValueError")
          [] OTHER ->
                Formatted(
                    [order_id |-> order["id"],
                     symbol |-> order["symbol"],
                     status |-> UpperStatus(order["status"]),
                     side |-> Upper(order["side"]),
                     type |-> Upper(order["type"]),
                     quantity |-> Float(order["size"]),
                     executed_qty |-> dealSize,
                     price |-> IF hasPrice
                               THEN Float(order["price"]) ELSE None,
                     created_at |-> order["createdAt"],
                     updated_at |-> Get(order, "updatedAt", None),
                     commission |-> Float(Get(order, "fee", "0")),
                     commission_asset |-> Get(order, "feeCurrency", NoneStr),
                     average_price |->
                         IF dealSize > 0
                         THEN Float(Get(order, "dealFunds", "0"))
                              \div Float(Get(order, "dealSize", "1"))
                         ELSE None])

_format_order(ex, order) ==
    CASE ex = "binance" -> Binance_format_order(order)
      [] ex = "mexc" -> Mexc_format_order(order)
      [] ex = "bybit" -> Bybit_format_order(order)
      [] ex = "okx" -> Okx_format_order(order)
      [] ex = "kucoin" -> Kucoin_format_order(order)

(* ---------------------------------------------------------------------- *)
(* Native payloads                                                         *)
(* ---------------------------------------------------------------------- *)

\* The statuses each exchange names, and one it has never named.
NativeStatuses(ex) ==
    CASE ex = "binance" -> {"NEW", "FILLED", "weird_state"}
      [] ex = "mexc" -> {"NEW", "FILLED", "weird_state"}
      [] ex = "bybit" -> {"Created", "New", "PartiallyFilled", "Filled",
                          "Cancelled", "Rejected", "PendingCancel",
                          "weird_state"}
      [] ex = "okx" -> {"live", "partially_filled", "filled", "canceled",
                        "failed", "weird_state"}
      [] ex = "kucoin" -> {"active", "done", "weird_state"}

Fill(price, qty, commission, commissionAsset) ==
    [price |-> price, qty |-> qty, commission |-> commission,
     commissionAsset |-> commissionAsset]

NoFills == <<>>

TwoFills == <<Fill("100", "1", "1", "BNB"), Fill("200", "1", "2", "USDT")>>

Execution(qty, avg, funds, fee, fills) ==
    [qty |-> qty, avg |-> avg, funds |-> funds, fee |-> fee,
     fills |-> fills]

Absent == "absent"

\* How far the order has executed: an unfilled order, with the text the
\* exchange uses for "no average price yet" (Bybit: "" on unified accounts,
\* "0" on classic ones; OKX: ""), and a filled order of two fills.  Binance
\* spot and MEXC payloads carry no average price, KuCoin's carry the deal
\* funds.
Executions(ex) ==
    CASE ex \in {"binance", "mexc"} ->
            {Execution("0", Absent, "0", "0", NoFills),
             Execution("2", Absent, "300", "3", TwoFills)}
      [] ex = "bybit" ->
            {Execution("0", "", "0", "0", NoFills),
             Execution("0", "0", "0", "0", NoFills),
             Execution("2", "150", "300", "3", NoFills)}
      [] ex = "okx" ->
            {Execution("0", "", "0", "0", NoFills),
             Execution("2", "150", "300", "3", NoFills)}
      [] ex = "kucoin" ->
            {Execution("0", Absent, "0", "0", NoFills),
             Execution("2", Absent, "300", "3", NoFills)}

\* Response of python-binance for an order (FULL response type)
BinancePayload(id, status, x) ==
    [orderId |-> id, symbol |-> "BTCUSDT", status |-> status,
     side |-> "BUY", type |-> "MARKET", origQty |-> "2",
     executedQty |-> x.qty, cummulativeQuoteQty |-> x.funds,
     price |-> "0", time |-> 1, updateTime |-> 1, fills |-> x.fills]

MexcPayload(id, status, x) ==
    [orderId |-> id, symbol |-> "BTCUSDT", status |-> status,
     side |-> "BUY", type |-> "MARKET", origQty |-> "2",
     executedQty |-> x.qty, cummulativeQuoteQty |-> x.funds,
     price |-> "0", time |-> 1, updateTime |-> 1, fills |-> x.fills]

BybitPayload(id, status, x) ==
    [orderId |-> id, symbol |-> "BTCUSDT", orderStatus |-> status,
     side |-> "Buy", orderType |-> "Market", qty |-> "2",
     cumExecQty |-> x.qty, price |-> "0", avgPrice |-> x.avg,
     createdTime |-> "1", updatedTime |-> "1", cumExecFee |-> x.fee,
     feeTokenId |-> "USDT"]

OkxPayload(id, status, x) ==
    [ordId |-> id, instId |-> "BTCUSDT", state |-> status,
     side |-> "buy", ordType |-> "market", sz |-> "2",
     fillSz |-> x.qty, px |-> "", avgPx |-> x.avg,
     cTime |-> "1", uTime |-> "1", fee |-> x.fee, feeCcy |-> "USDT"]

KucoinPayload(id, status, x) ==
    [id |-> id, symbol |-> "BTCUSDT", status |-> status,
     side |-> "buy", type |-> "market", size |-> "2",
     dealSize |-> x.qty, dealFunds |-> x.funds, price |-> "",
     createdAt |-> 1, fee |-> x.fee, feeCurrency |-> "USDT"]

Payload(ex, id, status, x) ==
    CASE ex = "binance" -> BinancePayload(id, status, x)
      [] ex = "mexc" -> MexcPayload(id, status, x)
      [] ex = "bybit" -> BybitPayload(id, status, x)
      [] ex = "okx" -> OkxPayload(id, status, x)
      [] ex = "kucoin" -> KucoinPayload(id, status, x)

Payloads(ex) ==
    {Payload(ex, id, status, x) :
        id \in NativeIds(ex), status \in NativeStatuses(ex),
        x \in Executions(ex)}

\* One wallet row as the exchange reports it.
Row(asset, free, locked, total) ==
    [asset |-> asset, free |-> free, locked |-> locked, total |-> total]

\* Wallets: a consistent row, a row whose reported total has drifted from
\* free + locked, a row next to an empty one, and one currency held in two
\* accounts.
Wallets ==
    {<<Row("BTC", "1", "2", "3")>>,
     <<Row("BTC", "1", "2", "100")>>,
     <<Row("BTC", "1", "2", "3"), Row("USDT", "0", "0", "0")>>,
     <<Row("BTC", "1", "2", "3"), Row("BTC", "1", "0", "1")>>}

Assets == {NoneStr, "BTC", "ETH"}

Balance(asset, free, locked, total) ==
    [asset |-> asset, free |-> free, locked |-> locked, total |-> total]

\* `balances.get(asset, balances) if asset else balances`: the one asset's
\* entry when it was asked for and is there, else the whole dict.
Select(balances, asset) ==
    IF asset # NoneStr /\ \E b \in balances : b.asset = asset
    THEN [form |-> "balance",
          balances |-> {b \in balances : b.asset = asset}]
    ELSE [form |-> "balances", balances |-> balances]

\* A dict comprehension over the rows: a later row of the same asset
\* replaces an earlier one.
LastRows(wallet) ==
    {i \in DOMAIN wallet :
        \A j \in DOMAIN wallet : wallet[j].asset = wallet[i].asset => j <= i}

\* BinanceSpotClient.get_balance / MEXCSpotClient.get_balance: the rows with
\* free > 0 or locked > 0, total computed as free + locked.
BinanceBalances(wallet, asset) ==
    Select({Balance(wallet[i].asset, Float(wallet[i].free),
                    Float(wallet[i].locked),
                    Float(wallet[i].free) + Float(wallet[i].locked)) :
                i \in {k \in LastRows(wallet) :
                          Float(wallet[k].free) > 0
                          \/ Float(wallet[k].locked) > 0}},
           asset)

MexcBalances(wallet, asset) ==
    Select({Balance(wallet[i].asset, Float(wallet[i].free),
                    Float(wallet[i].locked),
                    Float(wallet[i].free) + Float(wallet[i].locked)) :
                i \in {k \in LastRows(wallet) :
                          Float(wallet[k].free) > 0
                          \/ Float(wallet[k].locked) > 0}},
           asset)

\* BybitSpotClient.get_balance: the rows of the asset asked for (all rows
\* when none), total taken from coin['total'].
BybitBalances(wallet, asset) ==
    Select({Balance(wallet[i].asset, Float(wallet[i].free),
                    Float(wallet[i].locked), Float(wallet[i].total)) :
                i \in {k \in LastRows(wallet) :
                          asset = NoneStr \/ wallet[k].asset = asset}},
           asset)

\* OKXSpotClient.get_balance: total taken from cashBal.
OkxBalances(wallet, asset) ==
    Select({Balance(wallet[i].asset, Float(wallet[i].free),
                    Float(wallet[i].locked), Float(wallet[i].total)) :
                i \in {k \in LastRows(wallet) :
                          asset = NoneStr \/ wallet[k].asset = asset}},
           asset)

\* Sum of one field over the rows of one currency.
RECURSIVE SumRows(_, _, _)
SumRows(wallet, currency, field) ==
    IF wallet = <<>>
    THEN 0
    ELSE (IF Head(wallet).asset = currency
          THEN Float(Head(wallet)[field]) ELSE 0)
         + SumRows(Tail(wallet), currency, field)

\* KuCoinSpotClient.get_balance: the account list filtered by currency on
\* the exchange side, the rows of one currency added up field by field.
KucoinBalances(wallet, asset) ==
    LET accounts == SelectSeq(wallet,
                        LAMBDA r : asset = NoneStr \/ r.asset = asset)
    IN  Select({Balance(c, SumRows(accounts, c, "free"),
                        SumRows(accounts, c, "locked"),
                        SumRows(accounts, c, "total")) :
                    c \in {accounts[i].asset : i \in DOMAIN accounts}},
               asset)

Balances(ex, wallet, asset) ==
    CASE ex = "binance" -> BinanceBalances(wallet, asset)
      [] ex = "mexc" -> MexcBalances(wallet, asset)
      [] ex = "bybit" -> BybitBalances(wallet, asset)
      [] ex = "okx" -> OkxBalances(wallet, asset)
      [] ex = "kucoin" -> KucoinBalances(wallet, asset)

(* ---------------------------------------------------------------------- *)
(* State outside the single call                                           *)
(* ---------------------------------------------------------------------- *)

Callers == {"c1", "c2"}

\* A caller with no call in progress.
Idle == [pc |-> "idle", op |-> "none", asset |-> NoneStr,
         overlapped |-> FALSE, value |-> NoValue]

\* No adapter instance.
NoInstance == [class |-> "none"]

IPs == {"10.0.0.1", "10.0.0.2"}

\* The answer of no is_allowed call.
NoVerdict == [ip |-> "none", allowed |-> TRUE, wait_time |-> 0]

\* RateLimiter.__init__: `self.requests = {}`; the clock at its start.
LimiterInit ==
    /\ requests = [ip \in {} |-> <<>>]
    /\ clock = 0
    /\ verdict = NoVerdict
    /\ granted = [ip \in IPs |-> <<>>]

AccountIds == {1, 2}

Tables == {"positions", "balances"}

NoSave == [table |-> "none", account_id |-> 0, data |-> <<>>,
           before |-> <<>>, outcome |-> "none"]

\* Empty tables.
StoreInit ==
    /\ rows = [t \in Tables |-> [a \in AccountIds |-> <<>>]]
    /\ saved = NoSave

RestInit == LimiterInit /\ StoreInit

\* The values of the variables the single-call specifications leave alone.
ExtInit ==
    /\ callers = [c \in Callers |-> Idle]
    /\ instance = NoInstance
    /\ trades = 0
    /\ RestInit

(* ---------------------------------------------------------------------- *)
(* State machine                                                           *)
(* ---------------------------------------------------------------------- *)

Init ==
    /\ op = "init"
    /\ adapter = "none"
    /\ args = NoArgs
    /\ env = NoEnv
    /\ result = NoResult
    /\ exchangeOrders = 0
    /\ held = NoExchange
    /\ returned = NoValue
    /\ response = NoResponse
    /\ ExtInit

\* Cls(api_key, api_secret, [passphrase,] testnet) called directly.
Construct ==
    \E ex \in Exchanges : \E e \in Envs(ex, "construct") :
        /\ op' = "construct"
        /\ adapter' = ex
        /\ args' = NoArgs
        /\ env' = e
        /\ result' = Instantiate(ex, e.r1, e.r2)
        /\ UNCHANGED <<exchangeOrders, aux, ext>>

\* ExchangeClientFactory.create_client(exchange, market_type, ...)
CreateClient ==
    \E ex \in Exchanges, mt \in MarketTypes, pp \in Passphrases :
      \E e \in Envs(ex, "construct") :
        /\ op' = "create_client"
        /\ adapter' = ex
        /\ args' = [NoArgs EXCEPT !.market_type = mt, !.passphrase = pp]
        /\ env' = e
        /\ result' = create_client(ex, mt, pp, e.r1, e.r2)
        /\ UNCHANGED <<exchangeOrders, aux, ext>>

\* adapter.create_order(...); the exchange books the order when the
\* placement request reached it and it accepted.
CreateOrder ==
    \E ex \in Exchanges, a \in OrderArgs : \E e \in Envs(ex, "create_order") :
        LET r == create_order(ex, a, e)
            booked == IF Placements(r.calls) > 0 /\ e.accepted THEN 1 ELSE 0
        IN  /\ exchangeOrders + booked <= MaxOrders
            /\ op' = "create_order"
            /\ adapter' = ex
            /\ args' = a
            /\ env' = e
            /\ result' = r
            /\ exchangeOrders' = exchangeOrders + booked
            /\ UNCHANGED <<aux, ext>>

Operation(o, symbols) ==
    \E ex \in Exchanges, sym \in symbols : \E e \in Envs(ex, o) :
        /\ o \in Methods(ex)
        /\ op' = o
        /\ adapter' = ex
        /\ args' = [NoArgs EXCEPT !.symbol = sym]
        /\ env' = e
        /\ result' = Invoke(ex, o, args', e)
        /\ UNCHANGED <<exchangeOrders, aux, ext>>

GetAccount == Operation("get_account", {NoneStr})

GetBalance == Operation("get_balance", {NoneStr})

GetSymbolPrice == Operation("get_symbol_price", {"BTCUSDT"})

CancelOrder == Operation("cancel_order", {"BTCUSDT"})

GetOrder == Operation("get_order", {"BTCUSDT"})

GetOpenOrders == Operation("get_open_orders", Symbols)

GetOrderHistory == Operation("get_order_history", Symbols)

Next ==
    \/ Construct
    \/ CreateClient
    \/ CreateOrder
    \/ GetAccount
    \/ GetBalance
    \/ GetSymbolPrice
    \/ CancelOrder
    \/ GetOrder
    \/ GetOpenOrders
    \/ GetOrderHistory

Spec == Init /\ [][Next]_vars

TypeOK ==
    /\ adapter \in Exchanges \cup {"none"}
    /\ result.outcome \in {"none", "return", "raise"}
    /\ exchangeOrders \in 0..MaxOrders

(* ---------------------------------------------------------------------- *)
(* NormSpec: the normalizers by value                                      *)
(* ---------------------------------------------------------------------- *)

\* An adapter, and the order and wallet the exchange holds for it.
NormInit ==
    /\ op = "none"
    /\ adapter \in Exchanges
    /\ args = NoArgs
    /\ env = NoEnv
    /\ result = NoResult
    /\ exchangeOrders = 0
    /\ \E order \in Payloads(adapter), wallet \in Wallets :
            held = [order |-> order, wallet |-> wallet]
    /\ returned = NoValue
    /\ response = NoResponse
    /\ ExtInit

\* The answers of the SDK call of a read: it raises, or it hands over what
\* the exchange holds.
ReadEnvs(ex, o) == {e \in Envs(ex, o) : e.absent = {}}

\* _format_order applied to the payload.
FormatOrder ==
    LET f == _format_order(adapter, held.order)
    IN  /\ op' = "_format_order"
        /\ args' = NoArgs
        /\ env' = NoEnv
        /\ result' = IF f.error = "none"
                     THEN Return("order", DOMAIN f.order, <<>>)
                     ELSE Raise(f.error, "", <<>>)
        /\ returned' = IF f.error = "none"
                       THEN [form |-> "order", order |-> f.order]
                       ELSE NoValue
        /\ UNCHANGED <<adapter, exchangeOrders, held, response, ext>>

\* get_order(symbol, order_id): the SDK call, then _format_order on its
\* answer; any exception of either leaves as ExchangeAPIError.
ReadOrder ==
    \E e \in ReadEnvs(adapter, "get_order") :
        LET a == [NoArgs EXCEPT !.symbol = "BTCUSDT"]
            sent == Invoke(adapter, "get_order", a, e)
            f == _format_order(adapter, held.order)
            failed == sent.outcome = "return" /\ f.error # "none"
        IN  /\ op' = "get_order"
            /\ args' = a
            /\ env' = e
            /\ result' = IF failed
                         THEN Raise(EAE, "Failed to get order", sent.calls)
                         ELSE sent
            /\ returned' = IF sent.outcome = "return" /\ ~failed
                           THEN [form |-> "order", order |-> f.order]
                           ELSE NoValue
            /\ UNCHANGED <<adapter, exchangeOrders, held, response, ext>>

\* get_balance(asset)
ReadBalance ==
    \E asset \in Assets :
    \E e \in ReadEnvs(adapter, "get_balance") :
        LET a == [NoArgs EXCEPT !.asset = asset]
            sent == Invoke(adapter, "get_balance", a, e)
        IN  /\ op' = "get_balance"
            /\ args' = a
            /\ env' = e
            /\ result' = sent
            /\ returned' = IF sent.outcome = "return"
                           THEN Balances(adapter, held.wallet, asset)
                           ELSE NoValue
            /\ UNCHANGED <<adapter, exchangeOrders, held, response, ext>>

Filled(ex) == CHOOSE x \in Executions(ex) : x.qty # "0"

\* The exchange fills the order it holds.
ExchangeFills ==
    \E id \in NativeIds(adapter), status \in NativeStatuses(adapter) :
        /\ \E x \in Executions(adapter) :
                /\ x.qty = "0"
                /\ held.order = Payload(adapter, id, status, x)
        /\ op' = "exchange"
        /\ held' = [held EXCEPT
                        !.order = Payload(adapter, id, status,
                                          Filled(adapter))]
        /\ result' = NoResult
        /\ UNCHANGED ext
        /\ UNCHANGED <<adapter, args, env, exchangeOrders, returned,
                       response>>

\* The quantities and prices of the LIMIT orders placed.
LimitQuantities == {1, 2}

LimitPrices == {100, 200}

\* Decimal text of a whole number of units, as the exchange writes it.
Text(n) ==
    CASE n = 0 -> "0" [] n = 1 -> "1" [] n = 2 -> "2" [] n = 3 -> "3"
      [] n = 100 -> "100" [] n = 150 -> "150" [] n = 200 -> "200"
      [] n = 300 -> "300"

\* The order the exchange holds after it accepted a LIMIT buy of q at p, in
\* the exchange's vocabulary, executed as far as x.
LimitPayload(ex, id, q, p, x) ==
    CASE ex = "binance" ->
            [BinancePayload(id, "NEW", x) EXCEPT
                !.type = "LIMIT", !.origQty = Text(q), !.price = Text(p)]
      [] ex = "mexc" ->
            [MexcPayload(id, "NEW", x) EXCEPT
                !.type = "LIMIT", !.origQty = Text(q), !.price = Text(p)]
      [] ex = "bybit" ->
            [BybitPayload(id, "New", x) EXCEPT
                !.orderType = "Limit", !.qty = Text(q), !.price = Text(p)]
      [] ex = "okx" ->
            [OkxPayload(id, "live", x) EXCEPT
                !.ordType = "limit", !.sz = Text(q), !.px = Text(p)]
      [] ex = "kucoin" ->
            [KucoinPayload(id, "active", x) EXCEPT
                !.type = "limit", !.size = Text(q), !.price = Text(p)]

\* create_order(symbol, "BUY", "LIMIT", q, p) on an exchange that accepts
\* the order: the placement, for the two-phase adapters the fetch of the
\* order, then _format_order on the payload; an exception of any of them
\* leaves as the adapter's error.
PlaceLimit ==
    \E q \in LimitQuantities, p \in LimitPrices :
    \E x \in {y \in Executions(adapter) : Float(y.qty) <= q} :
    \E e \in {d \in Envs(adapter, "create_order") :
                d.r1 = "ok" /\ d.absent = {}} :
        LET a == [NoArgs EXCEPT !.symbol = "BTCUSDT", !.side = "BUY",
                                !.order_type = "LIMIT", !.quantity = q,
                                !.price = p]
            sent == create_order(adapter, a, e)
            placed == LimitPayload(adapter,
                                   CHOOSE id \in NativeIds(adapter) : TRUE,
                                   q, p, x)
            f == _format_order(adapter, placed)
            failed == sent.outcome = "return" /\ f.error # "none"
        IN  /\ exchangeOrders < MaxOrders
            /\ op' = "create_order"
            /\ args' = a
            /\ env' = e
            /\ result' = IF failed
                         THEN Raise(IF adapter = "mexc"
                                    THEN "HTTPException" ELSE EAE,
                                    "Failed to create order", sent.calls)
                         ELSE sent
            /\ returned' = IF sent.outcome = "return" /\ ~failed
                           THEN [form |-> "order", order |-> f.order]
                           ELSE NoValue
            /\ held' = [held EXCEPT !.order = placed]
            /\ exchangeOrders' = exchangeOrders + 1
            /\ UNCHANGED <<adapter, response, ext>>

NormNext ==
    FormatOrder \/ ReadOrder \/ ReadBalance \/ ExchangeFills \/ PlaceLimit

NormSpec == NormInit /\ [][NormNext]_vars

(* ---------------------------------------------------------------------- *)
(* RouteSpec: the HTTP routes that build and use a client                  *)
(* ---------------------------------------------------------------------- *)

\* crud.get_trading_account: no such account, one that is not ACTIVE, an
\* active one.
Accounts == {"missing", "inactive", "active"}

RouteExchanges == {"binance", "mexc", "bybit"}

\* The contract operations the routes of each router call.
RouteOperations(ex) ==
    CASE ex = "binance" ->
            {"get_account", "get_balance", "create_order", "get_open_orders",
             "get_order_history"}
      [] ex = "mexc" ->
            {"get_account", "get_balance", "get_symbol_price", "create_order",
             "cancel_order", "get_order", "get_open_orders",
             "get_order_history"}
      [] ex = "bybit" -> {"get_account", "get_balance", "create_order"}

\* Order requests that pass the request schemas: a market buy by quantity,
\* a market buy by quote amount, a limit buy.
RouteOrders ==
    {[NoArgs EXCEPT !.symbol = "BTCUSDT", !.side = "BUY",
                    !.order_type = "MARKET", !.quantity = 1],
     [NoArgs EXCEPT !.symbol = "BTCUSDT", !.side = "BUY",
                    !.order_type = "MARKET", !.quote_order_qty = 50],
     [NoArgs EXCEPT !.symbol = "BTCUSDT", !.side = "BUY",
                    !.order_type = "LIMIT", !.quantity = 1, !.price = 100]}

RouteArgs(o) ==
    IF o = "create_order"
    THEN RouteOrders
    ELSE {[NoArgs EXCEPT !.symbol = "BTCUSDT"]}

\* raise HTTPException(...) before create_client is reached.
HTTPException(status_code, detail) ==
    [status |-> status_code,
     raised |-> Raise("HTTPException", detail, <<>>),
     factory |-> FALSE]

\* create_client raised and the getter answers with status_code.
FactoryFailed(status_code, made) ==
    [status |-> status_code, raised |-> made, factory |-> TRUE]

\* The client getter handed a client to the route.
Client(made) == [status |-> 0, raised |-> made, factory |-> TRUE]

\* get_binance_spot_client: 404, 403, and 500 for whatever create_client
\* raises (`except Exception`).
get_binance_spot_client(account, r1, r2) ==
    LET made == create_client("binance", "spot", NoneStr, r1, r2)
    IN  CASE account = "missing" ->
                HTTPException(404, "Trading account not found")
          [] account = "inactive" ->
                HTTPException(403, "Trading account is not active")
          [] made.outcome = "raise" -> FactoryFailed(500, made)
          [] OTHER -> Client(made)

\* get_mexc_spot_client: the same with 402 for a failed create_client.
get_mexc_spot_client(account, r1, r2) ==
    LET made == create_client("mexc", "spot", NoneStr, r1, r2)
    IN  CASE account = "missing" ->
                HTTPException(404, "Trading account not found")
          [] account = "inactive" ->
                HTTPException(403, "Trading account is not active")
          [] made.outcome = "raise" -> FactoryFailed(402, made)
          [] OTHER -> Client(made)

get_bybit_spot_client(account, r1, r2) ==
    LET made == create_client("bybit", "spot", NoneStr, r1, r2)
    IN  CASE account = "missing" ->
                HTTPException(404, "Trading account not found")
          [] account = "inactive" ->
                HTTPException(403, "Trading account is not active")
          [] made.outcome = "raise" -> FactoryFailed(500, made)
          [] OTHER -> Client(made)

get_spot_client(ex, account, r1, r2) ==
    CASE ex = "binance" -> get_binance_spot_client(account, r1, r2)
      [] ex = "mexc" -> get_mexc_spot_client(account, r1, r2)
      [] ex = "bybit" -> get_bybit_spot_client(account, r1, r2)

\* The create_order call of each order route.  The Binance route passes
\* quote_order_qty for a market order by quote amount and time_in_force for
\* a limit order, keywords BinanceSpotClient.create_order does not declare.
RouteCreateOrder(ex, a, e) ==
    IF ex = "binance" /\ a.order_type = "LIMIT"
    THEN Raise("TypeError", "unexpected keyword argument", <<>>)
    ELSE create_order(ex, a, e)

\* The status the client receives for what the operation did.  The routes
\* catch ExchangeAPIError (the MEXC order route catches nothing); an
\* HTTPException leaves with its own status, 400 for ValidationError and
\* for the one MEXC's create_order raises; any other exception is the
\* server error of the framework.  The Binance and Bybit order routes
\* declare response_model=OrderResponse, whose required fields exchange and
\* market_type the Order dict does not have.
Surface(ex, o, r) ==
    CASE r.outcome = "raise" /\ r.kind = EAE ->
            IF ex = "mexc" /\ o = "create_order" THEN 500 ELSE 502
      [] r.outcome = "raise" /\ r.kind \in {"ValidationError", "HTTPException"}
            -> 400
      [] r.outcome = "raise" -> 500
      [] o = "create_order" /\ ex \in {"binance", "bybit"} -> 500
      [] OTHER -> 200

\* What the database does with a trade row: it is written, or building or
\* inserting it fails.
DbAnswers == {"ok", "fail"}

\* The order routes that write a trade row after create_order returned.
PersistingRouters == {"binance", "bybit"}

\* One request to a route of router ex that calls operation o.
Route(ex, o) ==
    \E account \in Accounts, a \in RouteArgs(o) :
    \E c \in Envs(ex, "construct") :
    \E e \in Envs(ex, o) :
    \E db \in IF o = "create_order" /\ ex \in PersistingRouters
               THEN DbAnswers ELSE {"ok"} :
        LET got == get_spot_client(ex, account, c.r1, c.r2)
            r == IF o = "create_order"
                 THEN RouteCreateOrder(ex, a, e)
                 ELSE Invoke(ex, o, a, e)
            called == got.status = 0
            booked == IF called /\ Placements(r.calls) > 0 /\ e.accepted
                      THEN 1 ELSE 0
            placed == called /\ o = "create_order" /\ r.outcome = "return"
            persisted == placed /\ ex \in PersistingRouters /\ db = "ok"
        IN  /\ exchangeOrders + booked <= MaxOrders
            /\ op' = o
            /\ adapter' = ex
            /\ args' = a
            /\ env' = IF called THEN e ELSE c
            /\ result' = IF called THEN r ELSE got.raised
            /\ response' =
                    [NoResponse EXCEPT
                        !.status = IF called THEN Surface(ex, o, r)
                                   ELSE got.status,
                        !.route = ex,
                        !.account = account,
                        !.stage = CASE account # "active" -> "account"
                                    [] ~called -> "factory"
                                    [] OTHER -> "operation",
                        !.factory = got.factory,
                        !.trade = persisted,
                        !.placed = placed,
                        !.db = db]
            /\ exchangeOrders' = exchangeOrders + booked
            /\ trades' = trades + (IF persisted THEN 1 ELSE 0)
            /\ UNCHANGED <<held, returned, callers, instance, rest>>

BinanceSpotRoute == \E o \in RouteOperations("binance") : Route("binance", o)

MexcSpotRoute == \E o \in RouteOperations("mexc") : Route("mexc", o)

BybitSpotRoute == \E o \in RouteOperations("bybit") : Route("bybit", o)

\* The handlers of routes/binance_futures.py.
FuturesHandlers ==
    {"open_position", "close_position", "get_positions", "get_account_info",
     "change_leverage", "get_symbol_price"}

Leverage == Request("futures_change_leverage", "leverage",
                    {"symbol", "leverage"})

FuturesPlace == Place("futures_create_order",
                      {"symbol", "side", "type", "quantity", "price",
                       "timeInForce"})

\* The calls each handler makes on the BinanceClient, in order.
FuturesRequests(o) ==
    CASE o = "open_position" -> <<Leverage, FuturesPlace>>
      [] o = "close_position" -> <<FuturesPlace>>
      [] o = "get_positions" -> <<Read("futures_position_information")>>
      [] o = "get_account_info" -> <<Read("futures_account")>>
      [] o = "change_leverage" -> <<Leverage>>
      [] o = "get_symbol_price" -> <<Read("futures_mark_price")>>

\* What a handler did: the status it answers with, whether create_client
\* was called, the calls sent to the exchange, whether the placement
\* returned and whether the trade row was written.
Handled(status_code, factory, calls, placed, trade) ==
    [status |-> status_code, factory |-> factory, calls |-> calls,
     placed |-> placed, trade |-> trade]

\* The answers of the binance.client.Client constructor and of the calls of
\* a handler: r1 of the first call, r2 of the second.
FuturesAnswers == {"ok", "exc"}

FuturesEnvs(o) ==
    {e \in [r1 : FuturesAnswers, r2 : FuturesAnswers, absent : {{}},
            accepted : BOOLEAN, jsonMsg : {FALSE}] :
        LET two == Len(FuturesRequests(o)) = 2
            places == \E i \in DOMAIN FuturesRequests(o) :
                            FuturesRequests(o)[i].role = "place"
            answer == IF two THEN e.r2 ELSE e.r1
        IN  /\ (e.r2 # "ok") => (two /\ e.r1 = "ok")
            /\ e.accepted => (places /\ (two => e.r1 = "ok"))
            /\ (places /\ e.r1 = "ok" /\ e.r2 = "ok") => e.accepted}

\* A handler of routes/binance_futures.py: the account is looked up and, in
\* every handler but get_symbol_price, required to be ACTIVE; create_client;
\* the calls inside `try`, any exception of which is answered as
\* BinanceAPIError (502); open_position and close_position then write the
\* trade row inside the same `try`.  What they return does not fit the
\* response_model OrderResponse they declare.
FuturesHandler(o, account, made, e, db) ==
    LET reqs == FuturesRequests(o)
        two == Len(reqs) = 2
        persists == o \in {"open_position", "close_position"}
        sent == IF two /\ e.r1 # "ok" THEN SubSeq(reqs, 1, 1) ELSE reqs
    IN  CASE account = "missing" -> Handled(404, FALSE, <<>>, FALSE, FALSE)
          [] account = "inactive" /\ o # "get_symbol_price" ->
                Handled(403, FALSE, <<>>, FALSE, FALSE)
          [] made # "ok" ->
                Handled(IF o = "get_symbol_price" THEN 500 ELSE 502,
                        TRUE, <<>>, FALSE, FALSE)
          [] e.r1 # "ok" \/ e.r2 # "ok" ->
                Handled(502, TRUE, sent, FALSE, FALSE)
          [] persists /\ db # "ok" -> Handled(502, TRUE, reqs, TRUE, FALSE)
          [] persists -> Handled(500, TRUE, reqs, TRUE, TRUE)
          [] OTHER -> Handled(200, TRUE, reqs, FALSE, FALSE)

\* The actions a webhook payload may name; the last one is none of the four
\* the handler knows.
WebhookActions == {"open_long", "close_short", "flatten"}

KnownActions == {"open_long", "open_short", "close_long", "close_short"}

\* The webhook of routes/trading.py: passphrase, account lookup, ACTIVE
\* check, create_client, then inside one `try` the leverage change, the
\* mapping of the action, the placement and the trade row; any exception
\* inside that `try`, the HTTPException for an unknown action included, is
\* answered with 400.
webhook(passphrase, account, action, made, e, db) ==
    CASE ~passphrase -> Handled(403, FALSE, <<>>, FALSE, FALSE)
      [] account = "missing" -> Handled(404, FALSE, <<>>, FALSE, FALSE)
      [] account = "inactive" -> Handled(403, FALSE, <<>>, FALSE, FALSE)
      [] made # "ok" -> Handled(502, TRUE, <<>>, FALSE, FALSE)
      [] e.r1 # "ok" -> Handled(400, TRUE, <<Leverage>>, FALSE, FALSE)
      [] action \notin KnownActions ->
            Handled(400, TRUE, <<Leverage>>, FALSE, FALSE)
      [] e.r2 # "ok" ->
            Handled(400, TRUE, <<Leverage, FuturesPlace>>, FALSE, FALSE)
      [] db # "ok" ->
            Handled(400, TRUE, <<Leverage, FuturesPlace>>, TRUE, FALSE)
      [] OTHER -> Handled(200, TRUE, <<Leverage, FuturesPlace>>, TRUE, TRUE)

\* The state after a handler of the BinanceClient routes ran.
Answered(o, route, account, passphrase, action, e, db, h) ==
    LET booked == IF Placements(h.calls) > 0 /\ e.accepted THEN 1 ELSE 0
    IN  /\ exchangeOrders + booked <= MaxOrders
        /\ op' = o
        /\ adapter' = "binance"
        /\ args' = NoArgs
        /\ env' = e
        /\ result' = IF h.status = 200
                     THEN Return("raw", {}, h.calls)
                     ELSE Raise("HTTPException", "", h.calls)
        /\ response' =
                [NoResponse EXCEPT
                    !.status = h.status,
                    !.route = route,
                    !.account = account,
                    !.stage = CASE ~h.factory -> "account"
                                [] h.calls = <<>> -> "factory"
                                [] OTHER -> "operation",
                    !.factory = h.factory,
                    !.trade = h.trade,
                    !.placed = h.placed,
                    !.passphrase = passphrase,
                    !.action = action,
                    !.db = db]
        /\ exchangeOrders' = exchangeOrders + booked
        /\ trades' = trades + (IF h.trade THEN 1 ELSE 0)
        /\ UNCHANGED <<held, returned, callers, instance, rest>>

\* One request to a route of routes/binance_futures.py.
BinanceFuturesRoute ==
    \E o \in FuturesHandlers, account \in Accounts, made \in FuturesAnswers :
    \E e \in FuturesEnvs(o), db \in DbAnswers :
        Answered(o, "binance_futures", account, TRUE, "none", e, db,
                 FuturesHandler(o, account, made, e, db))

\* One request to POST /trading/webhook.
Webhook ==
    \E passphrase \in BOOLEAN, account \in Accounts :
    \E action \in WebhookActions, made \in FuturesAnswers :
    \E e \in FuturesEnvs("open_position"), db \in DbAnswers :
        Answered("webhook", "trading", account, passphrase, action, e, db,
                 webhook(passphrase, account, action, made, e, db))

RouteNext ==
    \/ BinanceSpotRoute
    \/ MexcSpotRoute
    \/ BybitSpotRoute
    \/ BinanceFuturesRoute
    \/ Webhook

RouteSpec == Init /\ [][RouteNext]_vars

(* ---------------------------------------------------------------------- *)
(* ConcSpec: two callers of one adapter instance                           *)
(* ---------------------------------------------------------------------- *)

\* The SDK client objects each __init__ stores on the instance.
ClientFields(ex) ==
    CASE ex = "okx" -> {"account_client", "trade_client", "market_client",
                        "public_client"}
      [] ex = "kucoin" -> {"market_client", "trade_client", "user_client"}
      [] OTHER -> {"client"}

\* The instance after ExchangeClientBase.__init__ and the class's own
\* __init__.
Constructed(ex) ==
    [class |-> ex, api_key |-> "key", api_secret |-> "secret",
     testnet |-> TRUE, clients |-> ClientFields(ex)]

\* What a method call hands back and what it leaves on the instance.
Effect(value, inst) == [value |-> value, instance |-> inst]

\* A get_balance that keeps the account rows it has seen on the instance
\* and adds the new ones to them.
KucoinGetBalanceCallRetained(inst, wallet, asset) ==
    LET seen == Get(inst, "accounts", <<>>) \o wallet
    IN  Effect(KucoinBalances(seen, asset), ("accounts" :> seen) @@ inst)

\* KuCoinSpotClient.get_balance: `balances = {}` is a local of the call.
KucoinGetBalanceCall(inst, wallet, asset) ==
    Effect(KucoinBalances(wallet, asset), inst)

\* The read operations as methods of an instance.
MethodCall(ex, o, inst, h, asset) ==
    CASE o = "get_balance" /\ ex = "kucoin" ->
            KucoinGetBalanceCall(inst, h.wallet, asset)
      [] o = "get_balance" -> Effect(Balances(ex, h.wallet, asset), inst)
      [] o = "get_order" ->
            LET f == _format_order(ex, h.order)
            IN  Effect(IF f.error = "none"
                       THEN [form |-> "order", order |-> f.order]
                       ELSE [form |-> "raised"], inst)

\* The calls the callers make: get_order, get_balance with or without an
\* asset.
ConcCalls ==
    {[op |-> "get_order", asset |-> NoneStr]}
    \cup {[op |-> "get_balance", asset |-> a] : a \in {NoneStr, "BTC"}}

\* One order per state of execution.
ConcPayloads(ex) ==
    {Payload(ex, CHOOSE id \in NativeIds(ex) : TRUE, "weird_state", x) :
        x \in Executions(ex)}

ConcInit ==
    /\ op = "none"
    /\ adapter \in Exchanges
    /\ args = NoArgs
    /\ env = NoEnv
    /\ result = NoResult
    /\ exchangeOrders = 0
    /\ \E order \in ConcPayloads(adapter), wallet \in Wallets :
            held = [order |-> order, wallet |-> wallet]
    /\ returned = NoValue
    /\ response = NoResponse
    /\ callers = [c \in Callers |-> Idle]
    /\ instance = Constructed(adapter)
    /\ trades = 0
    /\ RestInit

\* Caller c enters a method of the instance.
StartCall(c) ==
    /\ callers[c].pc = "idle"
    /\ \E call \in ConcCalls :
            callers' = [callers EXCEPT ![c] =
                            [pc |-> "called", op |-> call.op,
                             asset |-> call.asset, overlapped |-> FALSE,
                             value |-> NoValue]]
    /\ UNCHANGED <<op, adapter, args, env, result, exchangeOrders, aux,
                   instance, trades, rest>>

\* The method of caller c runs to its return; a call of the other caller
\* that is in progress has been overlapped by it.
FinishCall(c) ==
    /\ callers[c].pc = "called"
    /\ LET done == MethodCall(adapter, callers[c].op, instance, held,
                              callers[c].asset)
       IN  /\ callers' =
                [d \in Callers |->
                    IF d = c
                    THEN [callers[c] EXCEPT !.pc = "done",
                                            !.value = done.value]
                    ELSE IF callers[d].pc = "called"
                         THEN [callers[d] EXCEPT !.overlapped = TRUE]
                         ELSE callers[d]]
           /\ instance' = done.instance
    /\ UNCHANGED <<op, adapter, args, env, result, exchangeOrders, aux,
                   trades, rest>>

\* Caller c drops the value and is free to call again.
Forget(c) ==
    /\ callers[c].pc = "done"
    /\ callers' = [callers EXCEPT ![c] = Idle]
    /\ UNCHANGED <<op, adapter, args, env, result, exchangeOrders, aux,
                   instance, trades, rest>>

ConcNext == \E c \in Callers : StartCall(c) \/ FinishCall(c) \/ Forget(c)

ConcSpec == ConcInit /\ [][ConcNext]_vars

(* ---------------------------------------------------------------------- *)
(* LimiterSpec: the rate limiter                                           *)
(* ---------------------------------------------------------------------- *)

\* The window of is_allowed, in seconds.
WindowSeconds == 60

\* requests_per_minute of the limiter under check (60 by default).
RequestsPerMinute == 2

\* The clock stops here.
MaxClock == 120

\* Seconds that pass between two calls.
ClockSteps == {20, 40, 60}

\* self.requests[ip] when the key is there, the list the method starts with
\* when it is not.
Known(reqs, ip) == IF ip \in DOMAIN reqs THEN reqs[ip] ELSE <<>>

\* An is_allowed that keeps the requests made up to and including 60
\* seconds ago.
is_allowed_Inclusive(reqs, ip, current_time) ==
    LET kept == SelectSeq(Known(reqs, ip),
                          LAMBDA t : current_time - t <= WindowSeconds)
    IN  IF Len(kept) >= RequestsPerMinute
        THEN [requests |-> (ip :> kept) @@ reqs, allowed |-> FALSE,
              wait_time |-> WindowSeconds - (current_time - kept[1])]
        ELSE [requests |-> (ip :> Append(kept, current_time)) @@ reqs,
              allowed |-> TRUE, wait_time |-> 0]

\* RateLimiter.is_allowed
is_allowed(reqs, ip, current_time) ==
    LET kept == SelectSeq(Known(reqs, ip),
                          LAMBDA t : current_time - t < WindowSeconds)
    IN  IF Len(kept) >= RequestsPerMinute
        THEN [requests |-> (ip :> kept) @@ reqs, allowed |-> FALSE,
              wait_time |-> WindowSeconds - (current_time - kept[1])]
        ELSE [requests |-> (ip :> Append(kept, current_time)) @@ reqs,
              allowed |-> TRUE, wait_time |-> 0]

\* rate_limit_middleware: one request from ip at the current time.
IsAllowed(ip) ==
    LET answer == is_allowed(requests, ip, clock)
    IN  /\ requests' = answer.requests
        /\ verdict' = [ip |-> ip, allowed |-> answer.allowed,
                       wait_time |-> answer.wait_time]
        /\ granted' = IF answer.allowed
                      THEN [granted EXCEPT ![ip] = Append(@, clock)]
                      ELSE granted
        /\ UNCHANGED <<op, adapter, args, env, result, exchangeOrders, aux,
                       callers, instance, trades, clock, store>>

\* time.time() moves on.
Tick ==
    \E d \in ClockSteps :
        /\ clock + d <= MaxClock
        /\ clock' = clock + d
        /\ UNCHANGED <<op, adapter, args, env, result, exchangeOrders, aux,
                       callers, instance, trades, requests, verdict,
                       granted, store>>

LimiterNext == Tick \/ \E ip \in IPs : IsAllowed(ip)

LimiterSpec == Init /\ [][LimiterNext]_vars

(* ---------------------------------------------------------------------- *)
(* StoreSpec: save_positions and save_balances                             *)
(* ---------------------------------------------------------------------- *)

\* Longest list handed to a save_* call.
MaxRows == 2

\* Columns of models.Balance and models.Position the constructors accept as
\* keywords.
BalanceColumns ==
    {"id", "trading_account_id", "asset", "free", "locked", "timestamp"}

PositionColumns ==
    {"id", "trading_account_id", "symbol", "positionSide", "positionAmt",
     "entryPrice", "markPrice", "unRealizedProfit", "liquidationPrice",
     "leverage", "marginType", "timestamp"}

\* Keywords save_balances and save_positions pass to the constructors.
BalanceKeywords ==
    {"trading_account_id", "asset", "free", "locked", "timestamp"}

PositionKeywords ==
    {"trading_account_id", "symbol", "positionSide", "positionAmt",
     "entryPrice", "breakEvenPrice", "markPrice", "unRealizedProfit",
     "liquidationPrice", "notional", "marginAsset", "initialMargin",
     "maintMargin", "timestamp"}

\* Entries of balances_data: two well-formed ones, one without 'locked',
\* one whose 'free' is no number.
BalanceItems ==
    {[asset |-> "BTC", free |-> "1", locked |-> "2"],
     [asset |-> "USDT", free |-> "100", locked |-> "0"],
     [asset |-> "BTC", free |-> "1"],
     [asset |-> "BTC", free |-> "", locked |-> "0"]}

\* Entries of positions_data as python-binance reports a position.
PositionItems ==
    {[symbol |-> "BTCUSDT", positionSide |-> "BOTH", positionAmt |-> "1",
      entryPrice |-> "100", breakEvenPrice |-> "100", markPrice |-> "150",
      unRealizedProfit |-> "0", liquidationPrice |-> "0",
      notional |-> "150", marginAsset |-> "USDT", initialMargin |-> "3",
      maintMargin |-> "1"]}

Lists(items) ==
    {<<>>} \cup UNION {[1..n -> items] : n \in 1..MaxRows}

\* What the session does at commit.
CommitAnswers == {"ok", "fail"}

\* models.Balance(trading_account_id=..., asset=balance["asset"],
\* free=float(balance["free"]), locked=float(balance["locked"]), ...)
BuildBalance(balance, account_id) ==
    CASE Lacks(balance, {"asset", "free", "locked"}) -> FormatError("KeyError")
      [] BadNumber(balance, {"free", "locked"}) -> FormatError("ValueError")
      [] BalanceKeywords \ BalanceColumns # {} -> FormatError("TypeError")
      [] OTHER ->
            Formatted([trading_account_id |-> account_id,
                       asset |-> balance["asset"],
                       free |-> Float(balance["free"]),
                       locked |-> Float(balance["locked"])])

\* models.Position(trading_account_id=..., symbol=position["symbol"], ...):
\* the declarative constructor raises TypeError for a keyword that is no
\* column of the model.
BuildPosition(position, account_id) ==
    CASE Lacks(position, PositionKeywords
                            \ {"trading_account_id", "timestamp"})
            -> FormatError("KeyError")
      [] PositionKeywords \ PositionColumns # {} -> FormatError("TypeError")
      [] OTHER ->
            Formatted([trading_account_id |-> account_id,
                       symbol |-> position["symbol"],
                       positionAmt |-> Float(position["positionAmt"])])

Build(table, item, account_id) ==
    IF table = "balances"
    THEN BuildBalance(item, account_id)
    ELSE BuildPosition(item, account_id)

\* The loop of db.add calls over the list: the models added to the session
\* until one cannot be built.
RECURSIVE Added(_, _, _)
Added(table, data, account_id) ==
    IF data = <<>>
    THEN [models |-> <<>>, error |-> "none"]
    ELSE LET b == Build(table, Head(data), account_id)
         IN  IF b.error # "none"
             THEN [models |-> <<>>, error |-> b.error]
             ELSE LET more == Added(table, Tail(data), account_id)
                  IN  [models |-> <<b.order>> \o more.models,
                       error |-> more.error]

\* The body of save_positions / save_balances inside one transaction: the
\* delete of the account's rows, the adds, commit; on any exception
\* rollback, which restores the rows as they were, and DatabaseError.
Replace(table, stored, data, account_id, commit) ==
    LET added == Added(table, data, account_id)
        pending == [stored EXCEPT ![account_id] = added.models]
    IN  IF added.error # "none" \/ commit # "ok"
        THEN [rows |-> stored, outcome |-> "DatabaseError"]
        ELSE [rows |-> pending, outcome |-> "ok"]

\* crud.save_positions
save_positions(stored, positions_data, account_id, commit) ==
    Replace("positions", stored, positions_data, account_id, commit)

\* A save_balances whose failure leaves the delete and the rows added so
\* far in the table.
save_balances_NoRollback(stored, balances_data, account_id, commit) ==
    LET added == Added("balances", balances_data, account_id)
    IN  IF added.error # "none" \/ commit # "ok"
        THEN [rows |-> [stored EXCEPT ![account_id] = added.models],
              outcome |-> "DatabaseError"]
        ELSE [rows |-> [stored EXCEPT ![account_id] = added.models],
              outcome |-> "ok"]

\* crud.save_balances
save_balances(stored, balances_data, account_id, commit) ==
    Replace("balances", stored, balances_data, account_id, commit)

\* One save_* call and what it leaves in the tables.
Save(table, data, account_id, commit) ==
    LET done == IF table = "balances"
                THEN save_balances(rows[table], data, account_id, commit)
                ELSE save_positions(rows[table], data, account_id, commit)
    IN  /\ rows' = [rows EXCEPT ![table] = done.rows]
        /\ saved' = [table |-> table, account_id |-> account_id,
                     data |-> data, before |-> rows,
                     outcome |-> done.outcome]
        /\ UNCHANGED <<op, adapter, args, env, result, exchangeOrders, aux,
                       callers, instance, trades, lim>>

SaveBalances ==
    \E data \in Lists(BalanceItems), a \in AccountIds, c \in CommitAnswers :
        Save("balances", data, a, c)

SavePositions ==
    \E data \in Lists(PositionItems), a \in AccountIds, c \in CommitAnswers :
        Save("positions", data, a, c)

StoreNext == SaveBalances \/ SavePositions

StoreSpec == Init /\ [][StoreNext]_vars

(* ---------------------------------------------------------------------- *)
(* Properties                                                              *)
(* ---------------------------------------------------------------------- *)

AdapterOperations == {"construct"} \cup AbstractMethods

IsLimit == Upper(args.order_type) = "LIMIT"

\* C1: no adapter operation (the constructor included) terminates with an
\* error other than ValidationError or ExchangeAPIError.
C1_OnlyTwoErrorKinds ==
    (op \in AdapterOperations /\ result.outcome = "raise")
        => result.kind \in {"ValidationError", "ExchangeAPIError"}

\* C2: a LIMIT create_order without a price is rejected before any request
\* is sent: the call raises and the count of exchange calls it made is zero.
C2_LimitWithoutPriceSendsNothing ==
    (op = "create_order" /\ IsLimit /\ args.price = None)
        => (result.outcome = "raise" /\ Len(result.calls) = 0)

\* C3: a LIMIT create_order without a price fails with ValidationError and
\* with no other error kind.
C3_LimitWithoutPriceIsValidationError ==
    (op = "create_order" /\ IsLimit /\ args.price = None)
        => (result.outcome = "raise" /\ result.kind = "ValidationError")

\* C4: one create_order call sends at most one order-placement request, on
\* the success path and on every failure path.
C4_AtMostOnePlacement ==
    op = "create_order" => Placements(result.calls) <= 1

\* C4 witness: a two-phase create_order whose follow-up fetch failed after
\* the single placement.
C4_Witness ==
    /\ op = "create_order"
    /\ adapter = "bybit"
    /\ result.outcome = "raise"
    /\ env.r1 = "ok"
    /\ env.r2 = "exc"
    /\ Len(result.calls) = 2
    /\ Placements(result.calls) = 1

\* C5: whenever create_order returns normally the value is a canonical
\* Order carrying every canonical field, never the raw native payload and
\* never a partial record.
C5_ReturnsFullCanonicalOrder ==
    (op = "create_order" /\ result.outcome = "return")
        => (result.form = "order" /\ CanonicalFields \subseteq result.fields)

MissingCredential ==
    {"Passphrase is required for KuCoin", "Passphrase is required for OKX"}

\* C6: create_client for kucoin or okx with an absent passphrase (None or
\* empty) fails with ValidationError for the missing credential, for spot
\* and futures alike, and constructs no adapter (no probe is sent).
C6_MissingPassphraseRejected ==
    (op = "create_client" /\ adapter \in {"kucoin", "okx"}
        /\ args.passphrase \in {NoneStr, ""})
        => (/\ result.outcome = "raise"
            /\ result.kind = "ValidationError"
            /\ result.detail \in MissingCredential
            /\ result.form # "adapter"
            /\ Len(result.calls) = 0)

\* C6 witness: okx + futures with an empty passphrase was refused.
C6_Witness ==
    /\ op = "create_client"
    /\ adapter = "okx"
    /\ args.market_type = "futures"
    /\ args.passphrase = ""
    /\ result.kind = "ValidationError"

\* C7: for every exchange with market type spot, a passphrase where one is
\* required and a succeeding connectivity probe, create_client returns an
\* adapter of that exchange without raising.
C7_SupportedPairsConstruct ==
    (op = "create_client" /\ args.market_type = "spot"
        /\ (adapter \in {"kucoin", "okx"} => args.passphrase = "secret")
        /\ env.r1 = "ok" /\ env.r2 = "ok")
        => (/\ result.outcome = "return"
            /\ result.form = "adapter"
            /\ result.fields = {adapter})

\* C8: create_client fails with ValidationError for the unsupported
\* combination on every pair outside the support table (every futures
\* pair, the passphrase given where one is required), and it never returns
\* a value that is not an adapter.
C8_UnsupportedPairsRejected ==
    op = "create_client" =>
        /\ (args.market_type = "futures"
              /\ (adapter \in {"kucoin", "okx"} => args.passphrase = "secret"))
            => (/\ result.outcome = "raise"
                /\ result.kind = "ValidationError"
                /\ result.detail = "Unsupported exchange/market combination")
        /\ result.outcome = "return" => result.form = "adapter"
        /\ result.outcome # "none"

\* C8 witness: kucoin + futures with a passphrase was refused as an
\* unsupported combination.
C8_Witness ==
    /\ op = "create_client"
    /\ adapter = "kucoin"
    /\ args.market_type = "futures"
    /\ args.passphrase = "secret"
    /\ result.kind = "ValidationError"
    /\ result.detail = "Unsupported exchange/market combination"

\* C9: create_order carrying a quote quantity together with side SELL or
\* with type LIMIT fails before any request is sent to the exchange.
C9_QuoteQuantityOnSellOrLimitSendsNothing ==
    (op = "create_order" /\ args.quote_order_qty # None
        /\ (Upper(args.side) = "SELL" \/ IsLimit))
        => (result.outcome = "raise" /\ Len(result.calls) = 0)

\* C10: Bybit, KuCoin and OKX reject a create_order that carries a quote
\* quantity with ValidationError: no order is placed and the call fails
\* with no other error kind.
C10_UnsupportedQuoteQuantityIsValidationError ==
    (op = "create_order" /\ adapter \in {"bybit", "kucoin", "okx"}
        /\ args.quote_order_qty # None)
        => (/\ result.outcome = "raise"
            /\ result.kind = "ValidationError"
            /\ Placements(result.calls) = 0)

(* ---------------------------------------------------------------------- *)
(* Properties of the normalizers (NormSpec)                                *)
(* ---------------------------------------------------------------------- *)

\* How far the held order has executed.
HeldExecution ==
    CHOOSE x \in Executions(adapter) :
        \E id \in NativeIds(adapter), status \in NativeStatuses(adapter) :
            held.order = Payload(adapter, id, status, x)

Normalized == op = "_format_order" /\ result.outcome = "return"

\* C11: the normalizer gives an executed (average) price only when the
\* executed quantity is above zero; for a payload whose executed quantity is
\* zero it returns an Order whose executed price is None: not 0, not an
\* error.
C11_ExecutedPriceOnlyWhenExecuted ==
    /\ (op = "_format_order" /\ HeldExecution.qty = "0")
          => /\ result.outcome = "return"
             /\ Get(returned.order, "average_price", None) = None
    /\ (Normalized /\ Get(returned.order, "average_price", None) # None)
          => returned.order.executed_qty > 0

\* The fills the normalized payload carried.
Fills == Get(held.order, "fills", NoFills)

RECURSIVE SumValue(_)
SumValue(fills) ==
    IF fills = <<>>
    THEN 0
    ELSE Float(Head(fills).price) * Float(Head(fills).qty)
         + SumValue(Tail(fills))

RECURSIVE SumQty(_)
SumQty(fills) ==
    IF fills = <<>> THEN 0 ELSE Float(Head(fills).qty) + SumQty(Tail(fills))

RECURSIVE SumCommission(_)
SumCommission(fills) ==
    IF fills = <<>>
    THEN 0
    ELSE Float(Head(fills).commission) + SumCommission(Tail(fills))

\* C12: for a payload without an average price that carries fills, the
\* executed price of the Order is sum(price_i * qty_i) / sum(qty_i); for the
\* fills (100, 1) and (200, 1) it is 150.
C12_ExecutedPriceIsWeightedMean ==
    (Normalized /\ Fills # NoFills /\ "avgPrice" \notin DOMAIN held.order)
        => /\ Get(returned.order, "average_price", None) # None
           /\ returned.order.average_price * SumQty(Fills)
                = SumValue(Fills)
           /\ Fills = TwoFills
                => Get(returned.order, "average_price", None) = 150

\* C13: the commission of the Order is the sum of the commissions of the
\* fills, and its commission asset is the first fill's.
C13_CommissionSummedOverFills ==
    (Normalized /\ Fills # NoFills)
        => /\ Get(returned.order, "commission", None) = SumCommission(Fills)
           /\ Get(returned.order, "commission_asset", NoneStr)
                = Fills[1].commissionAsset

\* An operation has handed a canonical Order to its caller.
OrderReturned ==
    op \in {"_format_order", "get_order"} /\ result.outcome = "return"

CanonicalStatuses ==
    {"NEW", "PARTIALLY_FILLED", "FILLED", "CANCELED", "REJECTED", "EXPIRED",
     "PENDING_CANCEL"}

BybitTable == {"Created", "New", "PartiallyFilled", "Filled", "Cancelled",
               "Rejected", "PendingCancel"}

OkxTable == {"live", "partially_filled", "filled", "canceled", "failed"}

\* The key of the native status in the payload of the adapter, and the
\* native status of the held order.
StatusKey ==
    CASE adapter = "bybit" -> "orderStatus"
      [] adapter = "okx" -> "state"
      [] OTHER -> "status"

NativeStatus == held.order[StatusKey]

\* C14: a Bybit or OKX status of the exchange's table is translated to the
\* canonical status the table lists for it, one of the seven: Bybit Created
\* and New to NEW, PartiallyFilled to PARTIALLY_FILLED, Filled to FILLED,
\* Cancelled to CANCELED, Rejected to REJECTED, PendingCancel to
\* PENDING_CANCEL; OKX live to NEW, partially_filled to PARTIALLY_FILLED,
\* filled to FILLED, canceled to CANCELED, failed to REJECTED.
C14_StatusTables ==
    LET native == NativeStatus
        status == returned.order.status
    IN  /\ (OrderReturned /\ adapter = "bybit" /\ native \in BybitTable)
              => /\ status \in CanonicalStatuses
                 /\ native \in {"Created", "New"} => status = "NEW"
                 /\ native = "PartiallyFilled" => status = "PARTIALLY_FILLED"
                 /\ native = "Filled" => status = "FILLED"
                 /\ native = "Cancelled" => status = "CANCELED"
                 /\ native = "Rejected" => status = "REJECTED"
                 /\ native = "PendingCancel" => status = "PENDING_CANCEL"
        /\ (OrderReturned /\ adapter = "okx" /\ native \in OkxTable)
              => /\ status \in CanonicalStatuses
                 /\ native = "live" => status = "NEW"
                 /\ native = "partially_filled" => status = "PARTIALLY_FILLED"
                 /\ native = "filled" => status = "FILLED"
                 /\ native = "canceled" => status = "CANCELED"
                 /\ native = "failed" => status = "REJECTED"

\* C14 witness: get_order on Bybit returned a cancelled order as CANCELED.
C14_Witness ==
    /\ op = "get_order"
    /\ result.outcome = "return"
    /\ adapter = "bybit"
    /\ NativeStatus = "Cancelled"
    /\ returned.order.status = "CANCELED"

\* C15: in every adapter a native status outside the exchange's table comes
\* back in upper case (weird_state as WEIRD_STATE), and normalizing a
\* payload with such a status does not raise on its account.
C15_UnmappedStatusUppercased ==
    /\ (OrderReturned /\ NativeStatus = "weird_state")
          => returned.order.status = "WEIRD_STATE"
    /\ (op = "_format_order" /\ result.outcome = "raise")
          => \E status \in NativeStatuses(adapter) \ {"weird_state"} :
                _format_order(adapter,
                    [held.order EXCEPT ![StatusKey] = status]).error
                    # "none"

C17_TotalIsFreePlusLocked ==
    (op = "get_balance" /\ result.outcome = "return")
        => \A b \in returned.balances : b.total = b.free + b.locked

OrderOperations ==
    {"create_order", "cancel_order", "get_order", "get_open_orders",
     "get_order_history"}

\* The keys the normalizer of operation o subscripts in the answer.
ExpectedKeys(ex, o) ==
    CASE o \in OrderOperations ->
            (CASE ex = "binance" -> BinanceRequiredKeys
               [] ex = "mexc" -> MexcRequiredKeys
               [] ex = "bybit" -> BybitRequiredKeys
               [] ex = "okx" -> OkxRequiredKeys
               [] ex = "kucoin" -> KucoinRequiredKeys)
      [] o = "get_balance" ->
            (CASE ex = "binance" -> BinanceBalanceKeys
               [] ex = "mexc" -> MexcBalanceKeys
               [] ex = "bybit" -> BybitBalanceKeys
               [] ex = "okx" -> OkxBalanceKeys
               [] ex = "kucoin" -> KucoinBalanceKeys)
      [] o = "get_symbol_price" ->
            (CASE ex = "binance" -> {"symbol", "price"}
               [] ex = "mexc" -> {"price"}
               [] ex = "bybit" -> {"result", "list", "lastPrice"}
               [] ex = "okx" -> {"data", "last", "ts"}
               [] ex = "kucoin" -> {"price", "time"})
      [] o = "get_account" ->
            (CASE ex = "bybit" -> {"result", "permissions"}
               [] ex = "okx" -> {"data"}
               [] OTHER -> {})
      [] OTHER -> {}

\* The exchange answered every request of the operation, and the answer
\* lacks a field the normalizer expects.
MalformedAnswer ==
    /\ op \in AbstractMethods
    /\ result.calls # <<>>
    /\ env.r1 = "ok"
    /\ env.r2 = "ok"
    /\ env.absent \cap ExpectedKeys(adapter, op) # {}

\* C19: an operation whose answer lacks a field the normalizer expects
\* fails with ExchangeAPIError: no other exception, no value returned.
C19_MalformedAnswerIsExchangeAPIError ==
    MalformedAnswer => (result.outcome = "raise" /\ result.kind = EAE)

(* ---------------------------------------------------------------------- *)
(* Properties of the routes (RouteSpec)                                    *)
(* ---------------------------------------------------------------------- *)

\* C20: on every route, a ValidationError raised by the factory or by the
\* adapter reaches the client as 400, and an ExchangeAPIError raised by
\* either reaches it as 502.
C20_StatusFollowsErrorKind ==
    (response.stage \in {"factory", "operation"} /\ result.outcome = "raise")
        => /\ result.kind = "ValidationError" => response.status = 400
           /\ result.kind = EAE => response.status = 502

(* ---------------------------------------------------------------------- *)
(* Properties of the adapter classes (Spec)                                *)
(* ---------------------------------------------------------------------- *)

\* C21: the class of every adapter defines all eight operations of
\* ExchangeClientBase, so constructing it with a reachable exchange returns
\* the adapter.
C21_EveryAdapterImplementsContract ==
    op = "construct"
        => /\ AbstractMethods \subseteq Methods(adapter)
           /\ (env.r1 = "ok" /\ env.r2 = "ok") => result.outcome = "return"

(* ---------------------------------------------------------------------- *)
(* Properties of concurrent callers (ConcSpec)                             *)
(* ---------------------------------------------------------------------- *)

C23_BalanceOfTheAssetAsked ==
    (op = "get_balance" /\ result.outcome = "return")
        => IF args.asset # NoneStr
           THEN /\ returned.form = "balance"
                /\ \A b \in returned.balances : b.asset = args.asset
           ELSE returned.form = "balances"

\* C24: a LIMIT create_order with a positive quantity q and a positive price
\* that the exchange accepts, every request of the call answered, returns an
\* Order whose quantity is q and whose price is not None.
C24_LimitOrderEchoesQuantityAndPrice ==
    (/\ op = "create_order"
     /\ Upper(args.order_type) = "LIMIT"
     /\ args.quantity > 0 /\ args.price > 0
     /\ env.accepted /\ env.r1 = "ok" /\ env.r2 = "ok")
        => /\ result.outcome = "return"
           /\ returned.form = "order"
           /\ returned.order.quantity = args.quantity
           /\ returned.order.price # None

(* ---------------------------------------------------------------------- *)
(* Properties of the two-phase operations (Spec)                           *)
(* ---------------------------------------------------------------------- *)

\* Positions of the detail fetches among the requests of the last call.
DetailFetches ==
    {i \in DOMAIN result.calls : result.calls[i].role = "fetch"}

C26_ErrorMeansNoOrderAccepted ==
    (op = "create_order" /\ result.outcome = "raise")
        => ~(env.accepted /\ env.r1 = "ok" /\ Placements(result.calls) > 0)

(* ---------------------------------------------------------------------- *)
(* Properties of the account check and the trade rows (RouteSpec)          *)
(* ---------------------------------------------------------------------- *)

\* C27: a request that names a missing account is answered 404 and one that
\* names an account that is not ACTIVE is answered 403, and in both cases
\* create_client was not called and no request went to the exchange.
C27_AccountCheckedBeforeClient ==
    (response.route # "none" /\ response.passphrase
     /\ response.account # "active")
        => /\ response.status
                = (IF response.account = "missing" THEN 404 ELSE 403)
           /\ ~response.factory
           /\ result.calls = <<>>

\* The routes that place an order and write a trade row.
OrderPlacingRequest ==
    \/ response.route \in PersistingRouters /\ op = "create_order"
    \/ response.route = "binance_futures"
            /\ op \in {"open_position", "close_position"}
    \/ response.route = "trading"

\* The request was turned away before any order could be placed: wrong
\* passphrase, missing or inactive account, unknown action.
EarlyRejection ==
    \/ ~response.passphrase
    \/ response.account # "active"
    \/ response.route = "trading" /\ response.action \notin KnownActions

\* The requests of the last handler that changed something on the exchange:
\* a leverage change that was answered, a placement the exchange accepted.
ExchangeEffects ==
    {i \in DOMAIN result.calls :
        \/ result.calls[i].role = "leverage" /\ env.r1 = "ok"
        \/ result.calls[i].role = "place" /\ env.accepted}

\* C28: in the order-placing routes a trade row is written only after the
\* placement call has returned, and a request that is rejected early (wrong
\* passphrase, missing or inactive account, unknown action) writes no trade
\* row and has no effect on the exchange.
C28_TradeRowOnlyAfterPlacement ==
    OrderPlacingRequest
        => /\ response.trade => response.placed
           /\ EarlyRejection => (~response.trade /\ ExchangeEffects = {})

(* ---------------------------------------------------------------------- *)
(* Properties of the rate limiter (LimiterSpec)                            *)
(* ---------------------------------------------------------------------- *)

\* The calls of ip that were allowed in the 60 seconds that start at time t.
AllowedFrom(ip, t) ==
    {i \in DOMAIN granted[ip] :
        t <= granted[ip][i] /\ granted[ip][i] < t + WindowSeconds}

\* No 60-second window holds more allowed calls of one IP than
\* requests_per_minute.
WindowKept ==
    \A ip \in IPs : \A i \in DOMAIN granted[ip] :
        Cardinality(AllowedFrom(ip, granted[ip][i])) <= RequestsPerMinute

\* A denied call answers with a wait time in (0, 60].
WaitInRange ==
    (verdict.ip # "none" /\ ~verdict.allowed)
        => (0 < verdict.wait_time /\ verdict.wait_time <= WindowSeconds)

\* One step of the limiter: the list of an IP that was not the one asked
\* about stays as it is, and a denied call leaves in the list of its IP only
\* timestamps that were there before.
LimiterStep ==
    /\ \A ip \in IPs :
            (verdict'.ip # ip \/ clock' # clock)
                => Known(requests', ip) = Known(requests, ip)
    /\ (clock' = clock /\ ~verdict'.allowed)
            => LET new == Known(requests', verdict'.ip)
                   old == Known(requests, verdict'.ip)
               IN  /\ Len(new) <= Len(old)
                   /\ \A i \in DOMAIN new : \E j \in DOMAIN old :
                            new[i] = old[j]

\* C29: with a clock that never goes back, no 60-second window holds more
\* allowed calls of one IP than requests_per_minute, a denied call records
\* no timestamp and answers with a wait time in (0, 60], and a call for one
\* IP leaves what the limiter holds for every other IP as it is.
C29_RateLimiter == [](WindowKept /\ WaitInRange) /\ [][LimiterStep]_vars

\* C29 witness: an IP is denied with 40 seconds to wait after its two
\* allowed calls, while the other IP has been allowed a call.
C29_Witness ==
    /\ verdict.ip = "10.0.0.1"
    /\ ~verdict.allowed
    /\ verdict.wait_time = 40
    /\ Len(granted["10.0.0.1"]) = RequestsPerMinute
    /\ Len(granted["10.0.0.2"]) > 0

(* ---------------------------------------------------------------------- *)
(* Properties of the stored rows (StoreSpec)                               *)
(* ---------------------------------------------------------------------- *)

\* The rows a list of entries becomes when every entry can be built.
RowsOf(table, data, account_id) == Added(table, data, account_id).models

\* C30: after a successful save_positions or save_balances the rows of the
\* account are exactly the supplied list; after a failed one (a row that
\* cannot be built, a failing commit) the call has raised DatabaseError and
\* the rows are what they were before the call; the rows of every other
\* account and of the other table are never changed.
C30_RowsReplacedAtomically ==
    saved.table # "none"
        => /\ saved.outcome \in {"ok", "DatabaseError"}
           /\ saved.outcome = "ok"
                => rows[saved.table][saved.account_id]
                    = RowsOf(saved.table, saved.data, saved.account_id)
           /\ saved.outcome = "DatabaseError" => rows = saved.before
           /\ \A t \in Tables, a \in AccountIds :
                (t # saved.table \/ a # saved.account_id)
                    => rows[t][a] = saved.before[t][a]

\* C30 witness: a save_balances whose second entry cannot be built raised
\* DatabaseError and the two rows the account had are still there, while
\* the other account has rows of its own.
C30_Witness ==
    /\ saved.table = "balances"
    /\ saved.outcome = "DatabaseError"
    /\ Len(saved.data) = 2
    /\ Build("balances", saved.data[1], saved.account_id).error = "none"
    /\ Build("balances", saved.data[2], saved.account_id).error # "none"
    /\ Len(rows["balances"][saved.account_id]) = 2
    /\ \E a \in AccountIds \ {saved.account_id} :
            rows["balances"][a] # <<>>

====
